---- MODULE Spec2Model ----
(***************************************************************************)
(* A model of the file storage service (services/storage.ts), its image   *)
(* transform cache (services/image.ts), the helpers they use              *)
(* (utils/helpers.ts) and the routes that call them (routes/files.ts,     *)
(* routes/cdn.ts).                                                        *)
(*                                                                         *)
(* Strings are sequences of character codes, so that toLowerCase,         *)
(* startsWith, includes and split('.') are computed as the code computes  *)
(* them.  An optional value (a field typed `x?: T`) is a sequence of      *)
(* length at most one: << >> is undefined, <<v>> is the value v.          *)
(*                                                                         *)
(* Every async method is cut at its awaits: the code between two awaits   *)
(* is one atomic step of the request that runs it, and requests           *)
(* interleave only at those points (one JavaScript thread).               *)
(***************************************************************************)
EXTENDS Integers, Sequences, FiniteSets, TLC

(* ---------------------------- bounds ----------------------------------- *)

\* Number of requests that can be in flight at the same time.
NumProcs == 2
\* Number of file ids generateFileId hands out in a run.
MaxIds == 2
\* The clock runs from 1 to MaxTime.
MaxTime == 3
\* A download counter is not incremented past this value.
MaxDownloads == 2

(* ---------------------------- optional values -------------------------- *)

Undefined == << >>
Some(v) == <<v>>
IsSet(x) == x # Undefined
\* JavaScript truthiness of an optional number: undefined and 0 are falsy.
Truthy(x) == IsSet(x) /\ x[1] # 0

(* ---------------------------- strings ---------------------------------- *)

toLowerCase(s) == [i \in 1..Len(s) |-> IF s[i] \in 65..90 THEN s[i] + 32 ELSE s[i]]

\* A comparison of the first character only.
startsWithSameLetter(s, prefix) ==
    prefix = << >> \/ (s # << >> /\ s[1] = prefix[1])

startsWith(s, prefix) ==
    /\ Len(prefix) <= Len(s)
    /\ SubSeq(s, 1, Len(prefix)) = prefix

includes(s, sub) ==
    \E i \in 1..(Len(s) + 1) :
        /\ i + Len(sub) - 1 <= Len(s)
        /\ SubSeq(s, i, i + Len(sub) - 1) = sub

STR_image_prefix == <<105,109,97,103,101,47>>        \* "image/"
STR_video_prefix == <<118,105,100,101,111,47>>       \* "video/"
STR_audio_prefix == <<97,117,100,105,111,47>>        \* "audio/"
STR_application_pdf == <<97,112,112,108,105,99,97,116,105,111,110,47,112,100,102>>  \* "application/pdf"
STR_document == <<100,111,99,117,109,101,110,116>>   \* "document"
STR_text == <<116,101,120,116>>                      \* "text"
STR_spreadsheet == <<115,112,114,101,97,100,115,104,101,101,116>>       \* "spreadsheet"
STR_presentation == <<112,114,101,115,101,110,116,97,116,105,111,110>>  \* "presentation"
STR_octet_stream == <<97,112,112,108,105,99,97,116,105,111,110,47,111,99,116,101,116,45,115,116,114,101,97,109>>  \* "application/octet-stream"
STR_image_png == <<105,109,97,103,101,47,112,110,103>>   \* "image/png"
STR_text_plain == <<116,101,120,116,47,112,108,97,105,110>>  \* "text/plain"
STR_video_mp4 == <<118,105,100,101,111,47,109,112,52>>   \* "video/mp4"
STR_png == <<112,110,103>>                           \* "png"
STR_txt == <<116,120,116>>                           \* "txt"
STR_mp4 == <<109,112,52>>                            \* "mp4"

(* ---------------------------- utils/helpers.ts ------------------------- *)

Categories == {"images", "documents", "videos", "audio", "others"}

getFileCategory(mimeType) ==
    IF startsWith(mimeType, STR_image_prefix) THEN "images"
    ELSE IF startsWith(mimeType, STR_video_prefix) THEN "videos"
    ELSE IF startsWith(mimeType, STR_audio_prefix) THEN "audio"
    ELSE IF \/ mimeType = STR_application_pdf
            \/ includes(mimeType, STR_document)
            \/ includes(mimeType, STR_text)
            \/ includes(mimeType, STR_spreadsheet)
            \/ includes(mimeType, STR_presentation)
         THEN "documents"
    ELSE "others"

\* crypto.subtle.digest('SHA-256', buffer) rendered in hex: a fixed function of
\* the bytes, taken to be collision free.  `buffer` names the byte content.
generateChecksum(buffer) == [sha256 |-> buffer]

\* Position of the last '.' of filename, 0 when it has none.
LastDot(filename) ==
    LET dots == {i \in 1..Len(filename) : filename[i] = 46}
    IN  IF dots = {} THEN 0 ELSE CHOOSE i \in dots : \A j \in dots : j <= i

getExtension(filename) ==
    IF LastDot(filename) = 0 THEN << >>
    ELSE toLowerCase(SubSeq(filename, LastDot(filename) + 1, Len(filename)))

isImage(mimeType) == startsWith(mimeType, STR_image_prefix)

MAX_SIZES(category) ==
    CASE category = "images"    -> 10 * 1024 * 1024
      [] category = "documents" -> 50 * 1024 * 1024
      [] category = "videos"    -> 500 * 1024 * 1024
      [] category = "audio"     -> 50 * 1024 * 1024
      [] category = "others"    -> 25 * 1024 * 1024

ALLOWED_TYPES(category) ==
    CASE category = "images" -> {
            <<105,109,97,103,101,47,106,112,101,103>>,                   \* image/jpeg
            <<105,109,97,103,101,47,112,110,103>>,                       \* image/png
            <<105,109,97,103,101,47,103,105,102>>,                       \* image/gif
            <<105,109,97,103,101,47,119,101,98,112>>,                    \* image/webp
            <<105,109,97,103,101,47,115,118,103,43,120,109,108>>,        \* image/svg+xml
            <<105,109,97,103,101,47,97,118,105,102>> }                   \* image/avif
      [] category = "documents" -> {
            <<97,112,112,108,105,99,97,116,105,111,110,47,112,100,102>>,  \* application/pdf
            <<97,112,112,108,105,99,97,116,105,111,110,47,109,115,119,111,114,100>>,  \* application/msword
            <<97,112,112,108,105,99,97,116,105,111,110,47,118,110,100,46,111,112,101,110,120,109,108,102,111,114,109,97,116,115,45,111,102,102,105,99,101,100,111,99,117,109,101,110,116,46,119,111,114,100,112,114,111,99,101,115,115,105,110,103,109,108,46,100,111,99,117,109,101,110,116>>,  \* ...wordprocessingml.document
            <<97,112,112,108,105,99,97,116,105,111,110,47,118,110,100,46,109,115,45,101,120,99,101,108>>,  \* application/vnd.ms-excel
            <<97,112,112,108,105,99,97,116,105,111,110,47,118,110,100,46,111,112,101,110,120,109,108,102,111,114,109,97,116,115,45,111,102,102,105,99,101,100,111,99,117,109,101,110,116,46,115,112,114,101,97,100,115,104,101,101,116,109,108,46,115,104,101,101,116>>,  \* ...spreadsheetml.sheet
            <<97,112,112,108,105,99,97,116,105,111,110,47,118,110,100,46,109,115,45,112,111,119,101,114,112,111,105,110,116>>,  \* application/vnd.ms-powerpoint
            <<97,112,112,108,105,99,97,116,105,111,110,47,118,110,100,46,111,112,101,110,120,109,108,102,111,114,109,97,116,115,45,111,102,102,105,99,101,100,111,99,117,109,101,110,116,46,112,114,101,115,101,110,116,97,116,105,111,110,109,108,46,112,114,101,115,101,110,116,97,116,105,111,110>>,  \* ...presentationml.presentation
            <<116,101,120,116,47,112,108,97,105,110>>,                   \* text/plain
            <<116,101,120,116,47,99,115,118>>,                           \* text/csv
            <<116,101,120,116,47,109,97,114,107,100,111,119,110>> }      \* text/markdown
      [] category = "videos" -> {
            <<118,105,100,101,111,47,109,112,52>>,                       \* video/mp4
            <<118,105,100,101,111,47,119,101,98,109>>,                   \* video/webm
            <<118,105,100,101,111,47,111,103,103>>,                      \* video/ogg
            <<118,105,100,101,111,47,113,117,105,99,107,116,105,109,101>>,  \* video/quicktime
            <<118,105,100,101,111,47,120,45,109,115,118,105,100,101,111>> } \* video/x-msvideo
      [] category = "audio" -> {
            <<97,117,100,105,111,47,109,112,101,103>>,                   \* audio/mpeg
            <<97,117,100,105,111,47,119,97,118>>,                        \* audio/wav
            <<97,117,100,105,111,47,111,103,103>>,                       \* audio/ogg
            <<97,117,100,105,111,47,119,101,98,109>>,                    \* audio/webm
            <<97,117,100,105,111,47,97,97,99>>,                          \* audio/aac
            <<97,117,100,105,111,47,102,108,97,99>> }                    \* audio/flac
      [] category = "others" -> {}

\* A validation that rejects a file of exactly the maximum size.
validateFileBelowCeiling(mimeType, size) ==
    LET category == getFileCategory(mimeType)
    IN  IF size >= MAX_SIZES(category)
        THEN [valid |-> FALSE, error |-> "size"]
        ELSE IF ALLOWED_TYPES(category) # {} /\ mimeType \notin ALLOWED_TYPES(category)
        THEN [valid |-> FALSE, error |-> "type"]
        ELSE [valid |-> TRUE, error |-> "none"]

\* A validation that does not look at the size.
validateFileIgnoringSize(mimeType, size) ==
    LET category == getFileCategory(mimeType)
    IN  IF ALLOWED_TYPES(category) # {} /\ mimeType \notin ALLOWED_TYPES(category)
        THEN [valid |-> FALSE, error |-> "type"]
        ELSE [valid |-> TRUE, error |-> "none"]

\* { valid: true } or { valid: false, error }.
validateFile(mimeType, size) ==
    LET category == getFileCategory(mimeType)
    IN  IF size > MAX_SIZES(category)
        THEN [valid |-> FALSE, error |-> "size"]
        ELSE IF ALLOWED_TYPES(category) # {} /\ mimeType \notin ALLOWED_TYPES(category)
        THEN [valid |-> FALSE, error |-> "type"]
        ELSE [valid |-> TRUE, error |-> "none"]

\* nanoid(12): the n-th id handed out.  All ids have ID_LENGTH characters
\* and differ from each other.
ID_LENGTH == 12
generateFileId(n) == [i \in 1..ID_LENGTH |-> IF i = ID_LENGTH THEN 48 + n ELSE 65]

STR_width == <<119,105,100,116,104>>                 \* "width"
STR_height == <<104,101,105,103,104,116>>            \* "height"
STR_quality == <<113,117,97,108,105,116,121>>        \* "quality"
STR_format == <<102,111,114,109,97,116>>             \* "format"
STR_fit == <<102,105,116>>                           \* "fit"
STR_blur == <<98,108,117,114>>                       \* "blur"
STR_grayscale == <<103,114,97,121,115,99,97,108,101>>  \* "grayscale"
STR_jpeg == <<106,112,101,103>>                      \* "jpeg"
STR_webp == <<119,101,98,112>>                       \* "webp"
STR_avif == <<97,118,105,102>>                       \* "avif"
STR_cover == <<99,111,118,101,114>>                  \* "cover"
STR_inside == <<105,110,115,105,100,101>>            \* "inside"
STR_true == <<116,114,117,101>>                      \* "true"
STR_false == <<102,97,108,115,101>>                  \* "false"
STR_NaN == <<78,97,78>>                              \* "NaN"
STR_Photo_PNG == <<80,104,111,116,111,46,80,78,71>>  \* "Photo.PNG"
STR_notes_txt == <<110,111,116,101,115,46,116,120,116>>  \* "notes.txt"
STR_clip_mp4 == <<99,108,105,112,46,109,112,52>>     \* "clip.mp4"
STR_work == <<119,111,114,107>>                      \* "work"

(* A JavaScript value held by an options object: a number, NaN, a string   *)
(* or a boolean.                                                            *)
Num(n) == [t |-> "num", n |-> n]
NaN == [t |-> "nan"]
Str(s) == [t |-> "str", s |-> s]
Bool(b) == [t |-> "bool", b |-> b]

\* Truthiness of an optional JavaScript value.
TruthyValue(x) ==
    /\ IsSet(x)
    /\ CASE x[1].t = "num"  -> x[1].n # 0
         [] x[1].t = "nan"  -> FALSE
         [] x[1].t = "str"  -> x[1].s # << >>
         [] x[1].t = "bool" -> x[1].b

RECURSIVE Digits(_)
Digits(n) == IF n < 10 THEN <<48 + n>> ELSE Digits(n \div 10) \o <<48 + (n % 10)>>

\* `${v}` for a defined value.
TemplateString(v) ==
    CASE v.t = "num"  -> IF v.n < 0 THEN <<45>> \o Digits(0 - v.n) ELSE Digits(v.n)
      [] v.t = "nan"  -> STR_NaN
      [] v.t = "str"  -> v.s
      [] v.t = "bool" -> IF v.b THEN STR_true ELSE STR_false

\* a.localeCompare(b) < 0, for the lower-case ASCII field names of an options object.
RECURSIVE StrLess(_, _)
StrLess(a, b) ==
    IF b = << >> THEN FALSE
    ELSE IF a = << >> THEN TRUE
    ELSE IF a[1] # b[1] THEN a[1] < b[1]
    ELSE StrLess(Tail(a), Tail(b))

\* An options object is the sequence of its entries [k, v] in insertion order;
\* v is optional (a key may be present with the value undefined).
GetOption(options, key) ==
    IF \E i \in 1..Len(options) : options[i].k = key
    THEN options[CHOOSE i \in 1..Len(options) :
                    /\ options[i].k = key
                    /\ \A j \in 1..Len(options) : options[j].k = key => j <= i].v
    ELSE Undefined

\* Array.prototype.sort by key (stable): e goes after every entry whose key is
\* not greater than its own.
RECURSIVE InsertEntry(_, _)
InsertEntry(e, sorted) ==
    IF sorted = << >> THEN <<e>>
    ELSE IF StrLess(e.k, sorted[1].k) THEN <<e>> \o sorted
    ELSE <<sorted[1]>> \o InsertEntry(e, Tail(sorted))

RECURSIVE SortEntries(_)
SortEntries(entries) ==
    IF entries = << >> THEN << >>
    ELSE InsertEntry(entries[Len(entries)], SortEntries(SubSeq(entries, 1, Len(entries) - 1)))

RECURSIVE Join(_, _)
Join(strs, sep) ==
    IF strs = << >> THEN << >>
    ELSE IF Len(strs) = 1 THEN strs[1]
    ELSE strs[1] \o sep \o Join(Tail(strs), sep)

\* A key made of the set fields in their order of insertion.
generateCacheKeyUnsorted(fileId, options) ==
    LET defined == SelectSeq(options, LAMBDA e : IsSet(e.v))
        optionsStr == Join([i \in 1..Len(defined) |->
                              defined[i].k \o <<61>> \o TemplateString(defined[i].v[1])], <<95>>)
    IN  fileId \o <<95>> \o optionsStr

generateCacheKey(fileId, options) ==
    LET defined == SelectSeq(options, LAMBDA e : IsSet(e.v))
        sorted == SortEntries(defined)
        optionsStr == Join([i \in 1..Len(sorted) |->
                              sorted[i].k \o <<61>> \o TemplateString(sorted[i].v[1])], <<95>>)
    IN  fileId \o <<95>> \o optionsStr

(* ---------------------------- services/image.ts ------------------------ *)

\* `${options.format || 'jpeg'}`
FormatOrJpeg(options) ==
    IF TruthyValue(GetOption(options, STR_format))
    THEN TemplateString(GetOption(options, STR_format)[1])
    ELSE STR_jpeg

\* join(cacheDir, `${cacheKey}.${options.format || 'jpeg'}`): the file name in ./cache.
cachePath(fileId, options) ==
    generateCacheKey(fileId, options) \o <<46>> \o FormatOrJpeg(options)

Min(a, b) == IF a <= b THEN a ELSE b

\* The bytes the sharp pipeline produces from the source bytes `input`: a
\* function of the input and of the steps applied, in the pipeline's order.
transform(input, options) ==
    LET width == GetOption(options, STR_width)
        height == GetOption(options, STR_height)
        fit == GetOption(options, STR_fit)
        blur == GetOption(options, STR_blur)
        quality == GetOption(options, STR_quality)
        format == FormatOrJpeg(options)
    IN  [src |-> input,
         resize |-> IF TruthyValue(width) \/ TruthyValue(height)
                    THEN <<width, height, IF TruthyValue(fit) THEN fit[1] ELSE Str(STR_inside)>>
                    ELSE << >>,
         blur |-> IF TruthyValue(blur)
                  THEN Some(IF blur[1].t = "num" THEN Num(Min(blur[1].n, 100)) ELSE blur[1])
                  ELSE Undefined,
         grayscale |-> TruthyValue(GetOption(options, STR_grayscale)),
         encode |-> IF format \in {STR_jpeg, STR_png, STR_webp, STR_avif}
                    THEN Some(format) ELSE Undefined,
         quality |-> IF TruthyValue(quality) THEN quality[1] ELSE Num(80)]

(* ---------------------------- the Map of FileMetadata ------------------- *)

(* this.files, a Map, is the sequence of its values in insertion order.    *)
(* A FileMetadata record has the fields of types/index.ts; path is the     *)
(* pair (category directory, fileName) under ./uploads, and url, a fixed   *)
(* function of id, is left out.                                            *)

HasId(fs, id) == \E i \in 1..Len(fs) : fs[i].id = id
IndexOf(fs, id) == CHOOSE i \in 1..Len(fs) : fs[i].id = id
\* Map.get: optional.
MapGet(fs, id) == IF HasId(fs, id) THEN Some(fs[IndexOf(fs, id)]) ELSE Undefined
\* Map.set: a new key is appended, an existing key keeps its place.
MapSet(fs, id, meta) ==
    IF HasId(fs, id) THEN [fs EXCEPT ![IndexOf(fs, id)] = meta] ELSE Append(fs, meta)
\* Map.delete
MapDelete(fs, id) == SelectSeq(fs, LAMBDA m : m.id # id)

Ids(fs) == {fs[i].id : i \in 1..Len(fs)}

(* ---------------------------- listFiles -------------------------------- *)

SortKeys == {"uploadedAt", "size", "originalName", "downloads"}

\* a[sortBy] as it is stored.
SortValueAsStored(m, sortBy) == m[sortBy]

\* a[sortBy], lower-cased when it is a string.
SortValue(m, sortBy) ==
    CASE sortBy = "uploadedAt"   -> m.uploadedAt
      [] sortBy = "size"         -> m.size
      [] sortBy = "originalName" -> toLowerCase(m.originalName)
      [] sortBy = "downloads"    -> m.downloads

ValueLess(a, b, sortBy) == IF sortBy = "originalName" THEN StrLess(a, b) ELSE a < b

\* The comparator handed to Array.prototype.sort: -1, 0 or 1.
Compare(a, b, sortBy, sortOrder) ==
    LET aVal == SortValue(a, sortBy)
        bVal == SortValue(b, sortBy)
    IN  IF sortOrder = "asc"
        THEN IF ValueLess(aVal, bVal, sortBy) THEN -1
             ELSE IF ValueLess(bVal, aVal, sortBy) THEN 1 ELSE 0
        ELSE IF ValueLess(bVal, aVal, sortBy) THEN -1
             ELSE IF ValueLess(aVal, bVal, sortBy) THEN 1 ELSE 0

\* Array.prototype.sort is stable: e, which came after the elements of
\* `sorted`, goes before the first of them it compares less than.
RECURSIVE InsertSorted(_, _, _, _)
InsertSorted(e, sorted, sortBy, sortOrder) ==
    IF sorted = << >> THEN <<e>>
    ELSE IF Compare(e, sorted[1], sortBy, sortOrder) < 0 THEN <<e>> \o sorted
    ELSE <<sorted[1]>> \o InsertSorted(e, Tail(sorted), sortBy, sortOrder)

RECURSIVE SortFiles(_, _, _)
SortFiles(arr, sortBy, sortOrder) ==
    IF arr = << >> THEN << >>
    ELSE InsertSorted(arr[Len(arr)],
                      SortFiles(SubSeq(arr, 1, Len(arr) - 1), sortBy, sortOrder),
                      sortBy, sortOrder)

\* A slice that takes the element at `end` too.
SliceInclusive(arr, start, end) ==
    LET len == Len(arr)
        from == IF start < 0 THEN (IF len + start < 0 THEN 0 ELSE len + start)
                ELSE Min(start, len)
        to == IF end < 0 THEN (IF len + end < 0 THEN 0 ELSE len + end)
              ELSE Min(end, len)
    IN  SubSeq(arr, from + 1, Min(to + 1, len))

\* Array.prototype.slice(start, end): a negative index counts from the end.
Slice(arr, start, end) ==
    LET len == Len(arr)
        from == IF start < 0 THEN (IF len + start < 0 THEN 0 ELSE len + start)
                ELSE Min(start, len)
        to == IF end < 0 THEN (IF len + end < 0 THEN 0 ELSE len + end)
              ELSE Min(end, len)
    IN  SubSeq(arr, from + 1, to)

\* A search that looks at the name only.
MatchesName(m, searchLower) == includes(toLowerCase(m.originalName), searchLower)

\* f.originalName.toLowerCase().includes(searchLower) ||
\* f.tags?.some(t => t.toLowerCase().includes(searchLower))
MatchesSearch(m, searchLower) ==
    \/ includes(toLowerCase(m.originalName), searchLower)
    \/ /\ IsSet(m.tags)
       /\ \E i \in 1..Len(m.tags[1]) : includes(toLowerCase(m.tags[1][i]), searchLower)

\* Math.ceil(total / limit) for limit > 0.
CeilDiv(total, limit) == (total + limit - 1) \div limit

\* params: [page, limit, category, search, sortBy, sortOrder], defaults applied.
listFiles(fs, params) ==
    LET byCategory == IF params.category # "all"
                      THEN SelectSeq(fs, LAMBDA f : f.category = params.category)
                      ELSE fs
        bySearch == IF params.search # << >>
                    THEN SelectSeq(byCategory,
                                   LAMBDA f : MatchesSearch(f, toLowerCase(params.search)))
                    ELSE byCategory
        fileArray == SortFiles(bySearch, params.sortBy, params.sortOrder)
        total == Len(fileArray)
        start == (params.page - 1) * params.limit
    IN  [files |-> Slice(fileArray, start, start + params.limit),
         total |-> total,
         page |-> params.page,
         totalPages |-> CeilDiv(total, params.limit)]

(* ---------------------------- inputs ----------------------------------- *)

Procs == 1..NumProcs

\* The ids a request can name: those generateFileId hands out.
IdSet == {generateFileId(n) : n \in 1..MaxIds}

(* The File objects a client uploads: name, declared type (empty when the  *)
(* client sent none), size, the byte content, and for a decodable image    *)
(* its dimensions.                                                          *)
PhotoFile == [name |-> STR_Photo_PNG, type |-> STR_image_png, size |-> 2048,
              bytes |-> "photo", dims |-> Some([width |-> 4, height |-> 2])]
NotesFile == [name |-> STR_notes_txt, type |-> << >>, size |-> 100,
              bytes |-> "notes", dims |-> Undefined]
VideoFile == [name |-> STR_clip_mp4, type |-> STR_video_mp4, size |-> 600 * 1024 * 1024,
              bytes |-> "video", dims |-> Undefined]
InputFiles == {PhotoFile, NotesFile, VideoFile}

\* lookup(file.name) of mime-types, for the extensions of InputFiles.
lookup(name) ==
    CASE getExtension(name) = STR_png -> Some(STR_image_png)
      [] getExtension(name) = STR_txt -> Some(STR_text_plain)
      [] getExtension(name) = STR_mp4 -> Some(STR_video_mp4)
      [] OTHER -> Undefined

NoOptions == [generateThumbnail |-> Undefined, maxWidth |-> Undefined,
              maxHeight |-> Undefined, quality |-> Undefined, isPublic |-> Undefined,
              expiresIn |-> Undefined, tags |-> Undefined]
\* ?public=false&expiresIn=1&tags=work
PrivateExpiring == [NoOptions EXCEPT !.isPublic = Some(FALSE), !.expiresIn = Some(1),
                                     !.tags = Some(<<STR_work>>)]
\* ?thumbnail=false&maxWidth=2
ResizeNoThumb == [NoOptions EXCEPT !.generateThumbnail = Some(FALSE), !.maxWidth = Some(2)]
UploadOptionSet == {NoOptions, PrivateExpiring, ResizeNoThumb}

(* ---------------------------- state ------------------------------------ *)

VARIABLES
    files,      \* this.files: the in-memory Map, as the sequence of its values
    initialized, \* this.initialized
    index,      \* ./data/files.json: the persisted entries, in order
    disk,       \* ./uploads/<category>/<fileName>: path -> content
    thumbs,     \* ./uploads/thumbnails/<id>.jpg: the ids that have one
    cache,      \* ./cache: file name -> content
    now,        \* Date.now()
    nextId,     \* number of the next id generateFileId hands out
    pc,         \* per request: where its async call chain stands
    call,       \* per request: the operation called and its arguments
    loc,        \* per request: the local variables of the calls in progress
    ret,        \* per request: what the operation returned or threw
    solo        \* per request: no other request was in flight since it was called

vars == <<files, initialized, index, disk, thumbs, cache, now, nextId, pc, call, loc, ret, solo>>

Idle(p) == pc[p] \in {"idle", "done"}

NoRet == [kind |-> "none"]
Ok(v) == [kind |-> "ok", value |-> v]
Throw(e) == [kind |-> "throw", error |-> e]

EmptyLoc == [mimeType |-> << >>, id |-> << >>, meta |-> Undefined, snap |-> << >>,
             did |-> << >>, dmeta |-> Undefined, dcaller |-> "none", todo |-> {},
             sweepNow |-> 0, count |-> 0, visited |-> {}, before |-> << >>,
             topts |-> << >>, tpath |-> << >>, tbuf |-> Undefined, results |-> << >>]

\* ./data/files.json is not there.
NoFile == [exists |-> FALSE, entries |-> << >>]

Init ==
    /\ files = << >>
    /\ initialized = FALSE
    /\ index = NoFile
    /\ disk = << >>
    /\ thumbs = {}
    /\ cache = << >>
    /\ now = 1000
    /\ nextId = 1
    /\ pc = [p \in Procs |-> "idle"]
    /\ call = [p \in Procs |-> [op |-> "none"]]
    /\ loc = [p \in Procs |-> EmptyLoc]
    /\ ret = [p \in Procs |-> NoRet]
    /\ solo = [p \in Procs |-> FALSE]

\* Request p moves to newpc with locals newloc and result newret.
Step(p, newpc, newloc, newret) ==
    /\ pc' = [pc EXCEPT ![p] = newpc]
    /\ loc' = [loc EXCEPT ![p] = newloc]
    /\ ret' = [ret EXCEPT ![p] = newret]

\* Request p calls operation c.
Begin(p, c) ==
    /\ initialized
    /\ Idle(p)
    /\ call' = [call EXCEPT ![p] = c]
    /\ solo' = [q \in Procs |->
                  IF q = p THEN \A r \in Procs \ {p} : Idle(r)
                  ELSE IF Idle(q) THEN solo[q] ELSE FALSE]

(* ---------------------------- continuations ---------------------------- *)

(* A call chain (a route calling getFileContent calling deleteFile, the    *)
(* sweep calling deleteFile) is followed with frames: where the request    *)
(* stands next, with which locals, and what it has returned.  When a       *)
(* callee returns, the caller's code up to its next await runs in the      *)
(* same step.                                                               *)
Frame(newpc, newloc, newret) == [pc |-> newpc, loc |-> newloc, ret |-> newret]

Goto(p, frame) == Step(p, frame.pc, frame.loc, frame.ret)

\* A write that does not reach the disk.
PutNowhere(f, k, v) == f

\* a function with one more / one fewer key
Put(f, k, v) == (k :> v) @@ f
Remove(f, k) == [x \in DOMAIN f \ {k} |-> f[x]]

\* Date.now() advances.
Tick ==
    /\ now < MaxTime * 1000
    /\ now' = now + 1000
    /\ UNCHANGED <<initialized, files, index, disk, thumbs, cache, nextId, pc, call, loc, ret, solo>>

(* ---------------------------- saveMetadata, loadMetadata --------------- *)

(* ./data/files.json is absent, or holds the JSON text of an object: the   *)
(* sequence of its members [key, value] in the order of the text.  A value *)
(* is the function from the member names of one metadata object to their   *)
(* values.  The absent file is NoFile.                                      *)

\* "4294967294", the largest array index
STR_max_index == <<52, 50, 57, 52, 57, 54, 55, 50, 57, 52>>

\* A property key that is an array index: the canonical decimal text of an
\* integer from 0 to 2^32 - 2.
IsArrayIndex(key) ==
    /\ key # << >>
    /\ \A i \in 1..Len(key) : key[i] \in 48..57
    /\ Len(key) = 1 \/ key[1] # 48
    /\ Len(key) < 10 \/ (Len(key) = 10 /\ ~StrLess(STR_max_index, key))

\* The positions S of keys, by ascending array index.
RECURSIVE Ascending(_, _)
Ascending(keys, S) ==
    IF S = {} THEN << >>
    ELSE LET shorter(a, b) == Len(a) < Len(b) \/ (Len(a) = Len(b) /\ StrLess(a, b))
             i == CHOOSE k \in S : \A j \in S \ {k} : shorter(keys[k], keys[j])
         IN  <<i>> \o Ascending(keys, S \ {i})

\* The order in which the own properties of an object are enumerated when
\* they were created in the order of keys: array indices first, ascending,
\* then the other keys in creation order.  The result lists positions of keys.
OwnPropertyOrder(keys) ==
    Ascending(keys, {i \in 1..Len(keys) : IsArrayIndex(keys[i])})
        \o SelectSeq([i \in 1..Len(keys) |-> i], LAMBDA i : ~IsArrayIndex(keys[i]))

MetadataFields == {"id", "originalName", "fileName", "mimeType", "size", "category", "path",
                   "thumbnailUrl", "width", "height", "uploadedAt", "expiresAt",
                   "downloads", "isPublic", "checksum", "tags"}
OptionalFields == {"thumbnailUrl", "width", "height", "expiresAt", "tags"}

\* JSON.stringify of a metadata object: a member whose value is undefined is
\* left out.
JSONValue(m) ==
    [f \in {g \in MetadataFields : g \notin OptionalFields \/ IsSet(m[g])} |->
        IF f \in OptionalFields THEN m[f][1] ELSE m[f]]

\* The metadata object JSON.parse makes of a value: a member that is not in
\* the text reads as undefined.
FromJSON(value) ==
    [f \in MetadataFields |->
        IF f \in OptionalFields
        THEN (IF f \in DOMAIN value THEN Some(value[f]) ELSE Undefined)
        ELSE value[f]]

\* Object.fromEntries(this.files) followed by JSON.stringify: the snapshot the
\* pending Bun.write will put in ./data/files.json.
Snapshot(fs) ==
    LET order == OwnPropertyOrder([i \in 1..Len(fs) |-> fs[i].id])
    IN  [exists |-> TRUE,
         entries |-> [i \in 1..Len(order) |->
                         [key |-> fs[order[i]].id, value |-> JSONValue(fs[order[i]])]]]

\* A load that fills the Map from the last member of the index to the first.
loadMetadataBackwards(file) ==
    IF file.exists
    THEN [i \in 1..Len(file.entries) |->
             FromJSON(file.entries[Len(file.entries) + 1 - i].value)]
    ELSE << >>

\* loadMetadata: new Map(Object.entries(await file.json())) when the file
\* exists, and the Map of the constructor when it does not.  The key of an
\* entry of the Map is the member name, which is the id of its value.
loadMetadata(file) ==
    LET order == OwnPropertyOrder([i \in 1..Len(file.entries) |-> file.entries[i].key])
    IN  IF file.exists
        THEN [i \in 1..Len(order) |-> FromJSON(file.entries[order[i]].value)]
        ELSE << >>

(* ---------------------------- init ------------------------------------- *)

\* init(): a call on an initialized service returns at once; the first call
\* makes the directories and loads the index.  No request is served before
\* it is over (index.ts awaits it before the routes are mounted).
StorageInit ==
    /\ IF initialized
       THEN UNCHANGED <<files, initialized>>
       ELSE /\ files' = loadMetadata(index)
            /\ initialized' = TRUE
    /\ UNCHANGED <<index, disk, thumbs, cache, now, nextId, pc, call, loc, ret, solo>>

\* The process stops and a new one is started: the requests in flight are
\* gone, the files stay, and the new service object runs init before it
\* serves a request.
Restart ==
    /\ initialized
    /\ files' = loadMetadata(index)
    /\ pc' = [p \in Procs |-> "idle"]
    /\ call' = [p \in Procs |-> [op |-> "none"]]
    /\ loc' = [p \in Procs |-> EmptyLoc]
    /\ ret' = [p \in Procs |-> NoRet]
    /\ solo' = [p \in Procs |-> FALSE]
    /\ UNCHANGED <<initialized, index, disk, thumbs, cache, now, nextId>>

\* A restart between requests.
RestartWhenIdle ==
    /\ \A p \in Procs : Idle(p)
    /\ Restart

(* ---------------------------- upload ----------------------------------- *)

\* file.type || lookup(file.name) || 'application/octet-stream'
EffectiveMimeType(file) ==
    IF file.type # << >> THEN file.type
    ELSE IF IsSet(lookup(file.name)) THEN lookup(file.name)[1]
    ELSE STR_octet_stream

\* A duplicate scan that starts at the second entry of the Map.
FindDuplicateAfterFirst(fs, checksum) ==
    IF \E i \in 2..Len(fs) : fs[i].checksum = checksum
    THEN Some(fs[CHOOSE i \in 2..Len(fs) : fs[i].checksum = checksum])
    ELSE Undefined

\* The duplicate scan of upload: the first record of the Map, in insertion
\* order, whose checksum is `checksum`, if any.
FindDuplicate(fs, checksum) ==
    IF \E i \in 1..Len(fs) : fs[i].checksum = checksum
    THEN Some(fs[CHOOSE i \in 1..Len(fs) :
                    /\ fs[i].checksum = checksum
                    /\ \A j \in 1..Len(fs) : fs[j].checksum = checksum => i <= j])
    ELSE Undefined

FilePath(category, fileName) == [dir |-> category, name |-> fileName]

\* The `file` of the upload request p runs: the argument of upload, or the
\* element of `files` the loop of uploadMultiple has reached.
UploadedFile(p) ==
    IF call[p].op = "uploadMultiple" THEN call[p].files[Len(loc[p].results) + 1]
    ELSE call[p].file

\* The loop of uploadMultiple (call c) with `results` collected: it returns
\* results after the last file, or calls upload on the next file, which runs
\* up to `await file.arrayBuffer()`.
NextUpload(c, results) ==
    LET file == c.files[Len(results) + 1]
        mimeType == EffectiveMimeType(file)
        validation == validateFile(mimeType, file.size)
    IN  IF Len(results) = Len(c.files) THEN Frame("done", EmptyLoc, Ok(results))
        ELSE IF ~validation.valid THEN Frame("done", EmptyLoc, Throw(validation.error))
        ELSE Frame("u_hash", [EmptyLoc EXCEPT !.mimeType = mimeType, !.results = results],
                   NoRet)

\* upload returned or threw `result` as part of call c: a route gets it; the
\* loop of uploadMultiple pushes the record and goes on, and a throw ends it.
AfterUpload(c, L, result) ==
    IF c.op = "uploadMultiple" /\ result.kind = "ok"
    THEN NextUpload(c, Append(L.results, result.value))
    ELSE Frame("done", EmptyLoc, result)

\* uploadMultiple(files, options), up to the first await of its first upload.
UploadMultiple(p, fileList, options) ==
    LET c == [op |-> "uploadMultiple", files |-> fileList, options |-> options]
    IN  /\ Begin(p, c)
        /\ Goto(p, NextUpload(c, << >>))
        /\ UNCHANGED <<initialized, files, index, disk, thumbs, cache, now, nextId>>

\* upload, up to `await file.arrayBuffer()`.
UploadCall(p, file, options) ==
    LET mimeType == EffectiveMimeType(file)
        validation == validateFile(mimeType, file.size)
    IN  /\ Begin(p, [op |-> "upload", file |-> file, options |-> options])
        /\ IF ~validation.valid
           THEN Step(p, "done", EmptyLoc, Throw(validation.error))
           ELSE Step(p, "u_hash", [EmptyLoc EXCEPT !.mimeType = mimeType], NoRet)
        /\ UNCHANGED <<initialized, files, index, disk, thumbs, cache, now, nextId>>

\* A FileMetadata whose checksum is taken again from the object a resize
\* has stored.
NewMetadataOfStoredObject(p, thumbnailUrl, width, height) ==
    LET file == UploadedFile(p)
        options == call[p].options
        mimeType == loc[p].mimeType
        category == getFileCategory(mimeType)
        fileName == loc[p].id \o <<46>> \o getExtension(file.name)
    IN  [id |-> loc[p].id,
         originalName |-> file.name,
         fileName |-> fileName,
         mimeType |-> mimeType,
         size |-> file.size,
         category |-> category,
         path |-> FilePath(category, fileName),
         thumbnailUrl |-> thumbnailUrl,
         width |-> width,
         height |-> height,
         uploadedAt |-> now,
         expiresAt |-> IF Truthy(options.expiresIn)
                       THEN Some(now + options.expiresIn[1] * 1000) ELSE Undefined,
         downloads |-> 0,
         isPublic |-> IF IsSet(options.isPublic) THEN options.isPublic[1] ELSE TRUE,
         checksum |-> IF Truthy(options.maxWidth) \/ Truthy(options.maxHeight)
                      THEN generateChecksum("resized")
                      ELSE generateChecksum(file.bytes),
         tags |-> options.tags]

\* The FileMetadata upload builds once the file (and its derived data) is on disk.
NewMetadata(p, thumbnailUrl, width, height) ==
    LET file == UploadedFile(p)
        options == call[p].options
        mimeType == loc[p].mimeType
        category == getFileCategory(mimeType)
        fileName == loc[p].id \o <<46>> \o getExtension(file.name)
    IN  [id |-> loc[p].id,
         originalName |-> file.name,
         fileName |-> fileName,
         mimeType |-> mimeType,
         size |-> file.size,
         category |-> category,
         path |-> FilePath(category, fileName),
         thumbnailUrl |-> thumbnailUrl,
         width |-> width,
         height |-> height,
         uploadedAt |-> now,
         expiresAt |-> IF Truthy(options.expiresIn)
                       THEN Some(now + options.expiresIn[1] * 1000) ELSE Undefined,
         downloads |-> 0,
         isPublic |-> IF IsSet(options.isPublic) THEN options.isPublic[1] ELSE TRUE,
         checksum |-> generateChecksum(file.bytes),
         tags |-> options.tags]

\* An upload that goes on to the index write without this.files.set.
CommitNowhere(p, metadata) ==
    /\ files' = files
    /\ Step(p, "u_save", [loc[p] EXCEPT !.meta = Some(metadata),
                                        !.snap = Snapshot(files)],
            NoRet)

\* this.files.set(id, metadata); await this.saveMetadata() up to the write.
Commit(p, metadata) ==
    /\ files' = MapSet(files, metadata.id, metadata)
    /\ Step(p, "u_save", [loc[p] EXCEPT !.meta = Some(metadata),
                                        !.snap = Snapshot(MapSet(files, metadata.id, metadata))],
            NoRet)

\* The checksum is known: the duplicate scan, and for new content the start of
\* the disk write.  The id generateFileId drew at the top of upload is first
\* used here, in the path of the file to write.
UploadScan(p) ==
    LET checksum == generateChecksum(UploadedFile(p).bytes)
        dup == FindDuplicate(files, checksum)
    IN  /\ pc[p] = "u_hash"
        /\ IF IsSet(dup)
           THEN /\ Goto(p, AfterUpload(call[p], loc[p], Ok(dup[1])))
                /\ UNCHANGED nextId
           ELSE /\ nextId <= MaxIds
                /\ nextId' = nextId + 1
                /\ Step(p, "u_write", [loc[p] EXCEPT !.id = generateFileId(nextId)], NoRet)
        /\ UNCHANGED <<initialized, files, index, disk, thumbs, cache, now, call, solo>>

\* await Bun.write(filePath, buffer) is over: it wrote the file (ok) or threw.
UploadWrite(p, ok) ==
    LET file == UploadedFile(p)
        category == getFileCategory(loc[p].mimeType)
        filePath == FilePath(category, loc[p].id \o <<46>> \o getExtension(file.name))
    IN  /\ pc[p] = "u_write"
        /\ IF ~ok
           THEN /\ Goto(p, AfterUpload(call[p], loc[p], Throw("io")))
                /\ UNCHANGED <<files, disk>>
           ELSE /\ disk' = Put(disk, filePath, [bytes |-> file.bytes])
                /\ IF isImage(loc[p].mimeType)
                   THEN /\ Step(p, "u_image", loc[p], NoRet)
                        /\ UNCHANGED files
                   ELSE Commit(p, NewMetadata(p, Undefined, Undefined, Undefined))
        /\ UNCHANGED <<initialized, index, thumbs, cache, now, nextId, call, solo>>

\* { width: options.maxWidth, height: options.maxHeight,
\*   quality: options.quality || 85, fit: 'inside' }
ResizeOptions(options) ==
    << [k |-> STR_width, v |-> IF IsSet(options.maxWidth)
                               THEN Some(Num(options.maxWidth[1])) ELSE Undefined],
       [k |-> STR_height, v |-> IF IsSet(options.maxHeight)
                                THEN Some(Num(options.maxHeight[1])) ELSE Undefined],
       [k |-> STR_quality, v |-> Some(Num(IF Truthy(options.quality)
                                          THEN options.quality[1] ELSE 85))],
       [k |-> STR_fit, v |-> Some(Str(STR_inside))] >>

\* Dimensions of dims resized to fit inside maxWidth x maxHeight, never enlarged.
ResizedDims(dims, options) ==
    LET w == IF Truthy(options.maxWidth) THEN Min(dims.width, options.maxWidth[1])
             ELSE dims.width
        h == IF Truthy(options.maxHeight) THEN Min(dims.height, options.maxHeight[1])
             ELSE dims.height
    IN  IF w * dims.height <= h * dims.width
        THEN [width |-> w, height |-> (dims.height * w) \div dims.width]
        ELSE [width |-> (dims.width * h) \div dims.height, height |-> h]

\* What the three try blocks of the image branch can do: each runs through or
\* throws (the resize can throw in transform, or after its write in getMetadata).
ImageOutcomes ==
    [dims : BOOLEAN, thumb : BOOLEAN, resize : {"ok", "transformThrows", "metadataThrows"}]
AllOk == [dims |-> TRUE, thumb |-> TRUE, resize |-> "ok"]

\* The image branch of upload (getMetadata, generateThumbnail, the resize) is over.
UploadImage(p, outcome) ==
    LET file == UploadedFile(p)
        options == call[p].options
        id == loc[p].id
        category == getFileCategory(loc[p].mimeType)
        filePath == FilePath(category, id \o <<46>> \o getExtension(file.name))
        wantThumb == options.generateThumbnail # Some(FALSE)
        wantResize == Truthy(options.maxWidth) \/ Truthy(options.maxHeight)
        decoded == outcome.dims /\ IsSet(file.dims)
        resized == wantResize /\ outcome.resize # "transformThrows"
        redone == wantResize /\ outcome.resize = "ok" /\ IsSet(file.dims)
        dims == IF redone THEN Some(ResizedDims(file.dims[1], options))
                ELSE IF decoded THEN file.dims ELSE Undefined
    IN  /\ pc[p] = "u_image"
        /\ thumbs' = IF wantThumb /\ outcome.thumb THEN thumbs \cup {id} ELSE thumbs
        /\ disk' = IF resized
                   THEN Put(disk, filePath, transform(disk[filePath], ResizeOptions(options)))
                   ELSE disk
        /\ Commit(p, NewMetadata(p,
                        IF wantThumb /\ outcome.thumb THEN Some(id) ELSE Undefined,
                        IF IsSet(dims) THEN Some(dims[1].width) ELSE Undefined,
                        IF IsSet(dims) THEN Some(dims[1].height) ELSE Undefined))
        /\ UNCHANGED <<initialized, index, cache, now, nextId, call, solo>>

\* The index write of upload is over: upload returns the metadata, or throws
\* when the write failed.
UploadSaved(p, ok) ==
    /\ pc[p] = "u_save"
    /\ IF ok
       THEN /\ index' = loc[p].snap
            /\ Goto(p, AfterUpload(call[p], loc[p], Ok(loc[p].meta[1])))
       ELSE /\ UNCHANGED index
            /\ Goto(p, AfterUpload(call[p], loc[p], Throw("io")))
    /\ UNCHANGED <<initialized, files, disk, thumbs, cache, now, nextId, call, solo>>

(* ---------------------------- getFile, listFiles ----------------------- *)

GetFile(p, id) ==
    /\ Begin(p, [op |-> "getFile", id |-> id])
    /\ Step(p, "done", EmptyLoc, Ok(MapGet(files, id)))
    /\ UNCHANGED <<initialized, files, index, disk, thumbs, cache, now, nextId>>

ListFiles(p, params) ==
    /\ Begin(p, [op |-> "listFiles", params |-> params])
    /\ Step(p, "done", EmptyLoc, Ok(listFiles(files, params)))
    /\ UNCHANGED <<initialized, files, index, disk, thumbs, cache, now, nextId>>

(* ---------------------------- expiry -------------------------------- *)

\* metadata.expiresAt && metadata.expiresAt < t
IsExpiredAt(m, t) == Truthy(m.expiresAt) /\ m.expiresAt[1] < t

\* The object a captured metadata reference points to: the record of the Map
\* while it is there, with the mutations made since.
LiveObject(fs, m) == IF HasId(fs, m.id) THEN fs[IndexOf(fs, m.id)] ELSE m

(* ---------------------------- routes/cdn.ts: GET /cdn/:id/transform ---- *)

RECURSIVE DigitsValue(_)
DigitsValue(ds) ==
    IF ds = << >> THEN 0 ELSE DigitsValue(SubSeq(ds, 1, Len(ds) - 1)) * 10 + (ds[Len(ds)] - 48)

\* Length of the longest prefix of s made of decimal digits.
RECURSIVE DigitPrefix(_)
DigitPrefix(s) ==
    IF s # << >> /\ s[1] \in 48..57 THEN 1 + DigitPrefix(Tail(s)) ELSE 0

\* parseInt(s) for a string without leading white space or radix prefix.
parseInt(s) ==
    LET signed == s # << >> /\ s[1] \in {43, 45}
        body == IF signed THEN Tail(s) ELSE s
        n == DigitPrefix(body)
    IN  IF n = 0 THEN NaN
        ELSE IF signed /\ s[1] = 45 THEN Num(0 - DigitsValue(SubSeq(body, 1, n)))
        ELSE Num(DigitsValue(SubSeq(body, 1, n)))

\* query: [w, h, q, f, fit, blur, grayscale], each an optional string.
NoQuery == [w |-> Undefined, h |-> Undefined, q |-> Undefined, f |-> Undefined,
            fit |-> Undefined, blur |-> Undefined, grayscale |-> Undefined]

\* The ImageTransformOptions object the transform route builds from the query.
TransformOptions(query) ==
    LET int(x) == IF IsSet(x) /\ x[1] # << >> THEN Some(parseInt(x[1])) ELSE Undefined
        str(x) == IF IsSet(x) THEN Some(Str(x[1])) ELSE Undefined
    IN  << [k |-> STR_width, v |-> int(query.w)],
           [k |-> STR_height, v |-> int(query.h)],
           [k |-> STR_quality, v |-> int(query.q)],
           [k |-> STR_format, v |-> str(query.f)],
           [k |-> STR_fit, v |-> str(query.fit)],
           [k |-> STR_blur, v |-> int(query.blur)],
           [k |-> STR_grayscale, v |-> Some(Bool(query.grayscale = Some(STR_true)))] >>

(* ---------------------------- routes/cdn.ts: GET /cdn/:id/:preset ------ *)

STR_small == <<115,109,97,108,108>>   \* "small"
STR_medium == <<109,101,100,105,117,109>>   \* "medium"
STR_large == <<108,97,114,103,101>>   \* "large"
STR_avatar == <<97,118,97,116,97,114>>   \* "avatar"
STR_banner == <<98,97,110,110,101,114>>   \* "banner"
STR_og == <<111,103>>   \* "og"
STR_constructor == <<99,111,110,115,116,114,117,99,116,111,114>>   \* "constructor"
STR_huge == <<104,117,103,101>>   \* "huge"

\* An ImageTransformOptions literal: its members in the order written.
Preset(width, height, fit, quality, format, blur) ==
    SelectSeq(<< [k |-> STR_width, v |-> width], [k |-> STR_height, v |-> height],
                 [k |-> STR_fit, v |-> fit], [k |-> STR_blur, v |-> blur],
                 [k |-> STR_quality, v |-> quality], [k |-> STR_format, v |-> format] >>,
              LAMBDA e : IsSet(e.v))

PresetNames == {STR_small, STR_medium, STR_large, STR_avatar, STR_banner, STR_og, STR_blur}

\* Names every object inherits from Object.prototype; the value of each is
\* an object (a function for most) with no enumerable property of its own.
InheritedNames == {STR_constructor}

\* PRESETS[name]: the member of the table, a member inherited from
\* Object.prototype, or undefined.
PRESETS(name) ==
    LET n(x) == Some(Num(x))
        str(x) == Some(Str(x))
    IN  CASE name = STR_small  -> Some(Preset(n(150), n(150), str(STR_cover), n(80), Undefined, Undefined))
          [] name = STR_medium -> Some(Preset(n(400), n(400), str(STR_inside), n(85), Undefined, Undefined))
          [] name = STR_large  -> Some(Preset(n(800), n(800), str(STR_inside), n(90), Undefined, Undefined))
          [] name = STR_avatar -> Some(Preset(n(100), n(100), str(STR_cover), n(80), str(STR_webp), Undefined))
          [] name = STR_banner -> Some(Preset(n(1200), n(400), str(STR_cover), n(85), str(STR_webp), Undefined))
          [] name = STR_og     -> Some(Preset(n(1200), n(630), str(STR_cover), n(85), Undefined, Undefined))
          [] name = STR_blur   -> Some(Preset(n(20), Undefined, Undefined, n(30), Undefined, n(10)))
          [] name \in InheritedNames -> Some(<< >>)
          [] OTHER -> Undefined

\* The response that carries the stored file of metadata.
FileResponse(metadata) == [status |-> 200, file |-> metadata.path]

\* getFileContent returned `result` (null is Undefined) to call c of request p.
AfterGetFileContent(c, L, result) ==
    IF c.op = "getFileContent" THEN Frame("done", EmptyLoc, Ok(result))
    ELSE IF ~IsSet(result) THEN Frame("done", EmptyLoc, Ok([status |-> 404]))
    ELSE IF c.op = "cdnFile"
    THEN \* GET /cdn/:id and GET /cdn/:id/download
         IF ~result[1].metadata.isPublic /\ ~c.isAuthenticated
         THEN Frame("done", EmptyLoc, Ok([status |-> 403]))
         ELSE Frame("done", EmptyLoc, Ok(FileResponse(result[1].metadata)))
    ELSE IF ~startsWith(result[1].metadata.mimeType, STR_image_prefix)
    THEN \* the preset route returns the original, the transform route refuses
         IF c.op = "cdnPreset"
         THEN Frame("done", EmptyLoc, Ok(FileResponse(result[1].metadata)))
         ELSE Frame("done", EmptyLoc, Ok([status |-> 400]))
    ELSE \* imageService.getCachedTransform up to `await cacheFile.exists()`
         LET options == IF c.op = "cdnPreset" THEN PRESETS(c.preset)[1]
                        ELSE TransformOptions(c.query)
         IN  Frame("t_exists",
                   [L EXCEPT !.meta = Some(result[1].metadata),
                             !.topts = options,
                             !.tpath = cachePath(result[1].metadata.id, options)],
                   NoRet)

(* ---------------------------- cleanupExpired --------------------------- *)

\* The for-of loop over this.files from the iterator's position on: the
\* entries already passed are L.visited; the loop runs to the next expired
\* entry and calls deleteFile on it, or ends and returns count.
SweepAdvance(L, fs) ==
    LET cand == {i \in 1..Len(fs) :
                    fs[i].id \notin L.visited /\ IsExpiredAt(fs[i], L.sweepNow)}
        i == CHOOSE k \in cand : \A j \in cand : k <= j
    IN  IF cand = {}
        THEN Frame("done", [EmptyLoc EXCEPT !.before = L.before, !.sweepNow = L.sweepNow],
                   Ok(L.count))
        ELSE Frame("d_unlink",
                   [L EXCEPT !.visited = L.visited \cup {fs[j].id : j \in 1..i},
                             !.did = fs[i].id, !.dmeta = Some(fs[i]), !.dcaller = "sweep"],
                   NoRet)

CleanupExpired(p) ==
    /\ Begin(p, [op |-> "cleanupExpired"])
    /\ Goto(p, SweepAdvance([EmptyLoc EXCEPT !.sweepNow = now, !.before = files], files))
    /\ UNCHANGED <<initialized, files, index, disk, thumbs, cache, now, nextId>>

(* ---------------------------- deleteFile ------------------------------- *)

\* deleteFile returned `result` to its caller, the Map being fs.
AfterDelete(c, L, result, fs) ==
    CASE L.dcaller = "top"   -> Frame("done", EmptyLoc, Ok(result))
      [] L.dcaller = "gfc"   -> AfterGetFileContent(c, L, Undefined)
      [] L.dcaller = "sweep" -> SweepAdvance([L EXCEPT !.count = @ + 1], fs)

\* deleteFile(id) called by a route, up to `await unlink(metadata.path)`.
DeleteFile(p, id) ==
    /\ Begin(p, [op |-> "deleteFile", id |-> id])
    /\ IF ~IsSet(MapGet(files, id))
       THEN Step(p, "done", EmptyLoc, Ok(FALSE))
       ELSE Step(p, "d_unlink",
                 [EmptyLoc EXCEPT !.did = id, !.dmeta = MapGet(files, id), !.dcaller = "top"],
                 NoRet)
    /\ UNCHANGED <<initialized, files, index, disk, thumbs, cache, now, nextId>>

\* unlink(metadata.path) is over.  It throws when the file is not there, or
\* when the file system refuses (ok is false); the catch block returns false.
DeleteUnlink(p, ok) ==
    LET path == loc[p].dmeta[1].path
        done == ok /\ path \in DOMAIN disk
    IN  /\ pc[p] = "d_unlink"
        /\ IF done
           THEN /\ disk' = Remove(disk, path)
                /\ Step(p, IF IsSet(loc[p].dmeta[1].thumbnailUrl) THEN "d_thumb" ELSE "d_readdir",
                        loc[p], NoRet)
           ELSE /\ UNCHANGED disk
                /\ Goto(p, AfterDelete(call[p], loc[p], FALSE, files))
        /\ UNCHANGED <<initialized, files, index, thumbs, cache, now, nextId, call, solo>>

\* unlink(thumbPath) is over; its failure is swallowed.  clearCache starts.
DeleteThumb(p, ok) ==
    /\ pc[p] = "d_thumb"
    /\ thumbs' = IF ok THEN thumbs \ {loc[p].did} ELSE thumbs
    /\ Step(p, "d_readdir", loc[p], NoRet)
    /\ UNCHANGED <<initialized, files, index, disk, cache, now, nextId, call, solo>>

\* The snapshot for the index is taken before this.files.delete(id).
RemoveRecordAfterSnapshot(p) ==
    /\ files' = MapDelete(files, loc[p].did)
    /\ Step(p, "d_save", [loc[p] EXCEPT !.todo = {}, !.snap = Snapshot(files)], NoRet)

\* clearCache is over: this.files.delete(id), and saveMetadata up to its write.
RemoveRecord(p) ==
    /\ files' = MapDelete(files, loc[p].did)
    /\ Step(p, "d_save", [loc[p] EXCEPT !.todo = {},
                                        !.snap = Snapshot(MapDelete(files, loc[p].did))],
            NoRet)

\* clearCache: readdir(this.cacheDir) is over.  The loop runs to the first
\* file whose name starts with fileId and unlinks it.
DeleteReaddir(p, ok) ==
    LET todo == IF ok THEN {name \in DOMAIN cache : startsWith(name, loc[p].did)} ELSE {}
    IN  /\ pc[p] = "d_readdir"
        /\ IF todo = {}
           THEN RemoveRecord(p)
           ELSE /\ Step(p, "d_purge", [loc[p] EXCEPT !.todo = todo], NoRet)
                /\ UNCHANGED files
        /\ UNCHANGED <<initialized, index, disk, thumbs, cache, now, nextId, call, solo>>

\* clearCache: the unlink of one listed file is over.  When it throws, the
\* catch block of clearCache ends the loop.
DeletePurge(p, name, ok) ==
    LET done == ok /\ name \in DOMAIN cache
    IN  /\ pc[p] = "d_purge"
        /\ name \in loc[p].todo
        /\ cache' = IF done THEN Remove(cache, name) ELSE cache
        /\ IF done /\ loc[p].todo # {name}
           THEN /\ Step(p, "d_purge", [loc[p] EXCEPT !.todo = @ \ {name}], NoRet)
                /\ UNCHANGED files
           ELSE RemoveRecord(p)
        /\ UNCHANGED <<initialized, index, disk, thumbs, now, nextId, call, solo>>

\* The index write of deleteFile is over: it returns true, or the catch block
\* returns false when the write threw.
DeleteSaved(p, ok) ==
    /\ pc[p] = "d_save"
    /\ index' = IF ok THEN loc[p].snap ELSE index
    /\ Goto(p, AfterDelete(call[p], loc[p], ok, files))
    /\ UNCHANGED <<initialized, files, disk, thumbs, cache, now, nextId, call, solo>>

(* ---------------------------- getFileContent --------------------------- *)

\* A read that sets the counter to one.
IncrementToOne(metadata) == [metadata EXCEPT !.downloads = 1]

\* metadata.downloads++
Increment(metadata) == [metadata EXCEPT !.downloads = @ + 1]

\* getFileContent(id) up to its first await, as part of call c: the frame
\* the request is in next, and the Map after the step.
GetFileContentEntry(c, L, id) ==
    LET metadata == MapGet(files, id)
        bumped == Increment(metadata[1])
    IN  IF ~IsSet(metadata)
        THEN [frame |-> AfterGetFileContent(c, L, Undefined), files |-> files]
        ELSE IF IsExpiredAt(metadata[1], now)
        THEN [frame |-> Frame("d_unlink",
                              [L EXCEPT !.did = id, !.dmeta = metadata, !.dcaller = "gfc"],
                              NoRet),
              files |-> files]
        ELSE [frame |-> Frame("g_save",
                              [L EXCEPT !.meta = Some(bumped),
                                        !.snap = Snapshot(MapSet(files, id, bumped))],
                              NoRet),
              files |-> MapSet(files, id, bumped)]

\* The counter is not incremented past MaxDownloads.
CanRead(id) ==
    (IsSet(MapGet(files, id)) /\ ~IsExpiredAt(MapGet(files, id)[1], now))
        => MapGet(files, id)[1].downloads < MaxDownloads

GetFileContent(p, id) ==
    LET c == [op |-> "getFileContent", id |-> id]
    IN  /\ CanRead(id)
        /\ Begin(p, c)
        /\ Goto(p, GetFileContentEntry(c, EmptyLoc, id).frame)
        /\ files' = GetFileContentEntry(c, EmptyLoc, id).files
        /\ UNCHANGED <<initialized, index, disk, thumbs, cache, now, nextId>>

\* The index write of getFileContent is over: it returns { file, metadata },
\* or throws when the write failed.
GetFileContentSaved(p, ok) ==
    LET metadata == LiveObject(files, loc[p].meta[1])
    IN  /\ pc[p] = "g_save"
        /\ index' = IF ok THEN loc[p].snap ELSE index
        /\ IF ok
           THEN Goto(p, AfterGetFileContent(call[p], loc[p],
                                            Some([file |-> metadata.path, metadata |-> metadata])))
           ELSE Step(p, "done", EmptyLoc, Throw("io"))
        /\ UNCHANGED <<initialized, files, disk, thumbs, cache, now, nextId, call, solo>>

(* ---------------------------- updateFile ------------------------------- *)

\* PATCH /api/files/:id: the updates the route builds from the body
\* [isPublic, tags, expiresIn].
RouteUpdates(body) ==
    [isPublic |-> body.isPublic,
     tags |-> body.tags,
     expiresAt |-> IF Truthy(body.expiresIn) THEN Some(now + body.expiresIn[1] * 1000)
                   ELSE Undefined]

UpdateFile(p, id, updates) ==
    LET metadata == MapGet(files, id)
        updated == [metadata[1] EXCEPT
                       !.isPublic = IF IsSet(updates.isPublic) THEN updates.isPublic[1] ELSE @,
                       !.tags = IF IsSet(updates.tags) THEN updates.tags ELSE @,
                       !.expiresAt = IF IsSet(updates.expiresAt) THEN updates.expiresAt ELSE @]
    IN  /\ Begin(p, [op |-> "updateFile", id |-> id, updates |-> updates])
        /\ IF ~IsSet(metadata)
           THEN /\ Step(p, "done", EmptyLoc, Ok(Undefined))
                /\ UNCHANGED files
           ELSE /\ files' = MapSet(files, id, updated)
                /\ Step(p, "x_save",
                        [EmptyLoc EXCEPT !.meta = Some(updated),
                                         !.snap = Snapshot(MapSet(files, id, updated))],
                        NoRet)
        /\ UNCHANGED <<initialized, index, disk, thumbs, cache, now, nextId>>

\* An updateFile that returns without writing the index file.
UpdateSavedNowhere(p, ok) ==
    /\ pc[p] = "x_save"
    /\ index' = index
    /\ Step(p, "done", EmptyLoc,
            IF ok THEN Ok(Some(LiveObject(files, loc[p].meta[1]))) ELSE Throw("io"))
    /\ UNCHANGED <<initialized, files, disk, thumbs, cache, now, nextId, call, solo>>

\* The index write of updateFile is over: it returns the record, or throws
\* when the write failed.
UpdateSaved(p, ok) ==
    /\ pc[p] = "x_save"
    /\ index' = IF ok THEN loc[p].snap ELSE index
    /\ Step(p, "done", EmptyLoc,
            IF ok THEN Ok(Some(LiveObject(files, loc[p].meta[1]))) ELSE Throw("io"))
    /\ UNCHANGED <<initialized, files, disk, thumbs, cache, now, nextId, call, solo>>

(* ---------------------------- getCachedTransform ----------------------- *)

Response(status) == [status |-> status]

\* A response whose X-Cache header is always MISS.
ImageResponseMiss(L, buffer, cached) ==
    [status |-> 200, body |-> buffer, contentType |-> FormatOrJpeg(L.topts),
     xcache |-> "MISS"]

ImageResponse(L, buffer, cached) ==
    [status |-> 200, body |-> buffer, contentType |-> FormatOrJpeg(L.topts),
     xcache |-> IF cached THEN "HIT" ELSE "MISS"]

\* GET /cdn/:id/transform.  isAuthenticated is what authMiddleware derived
\* from the API key of the request; the handler does not read it.
CdnTransform(p, id, query, isAuthenticated) ==
    LET c == [op |-> "cdnTransform", id |-> id, query |-> query,
              isAuthenticated |-> isAuthenticated]
    IN  /\ CanRead(id)
        /\ Begin(p, c)
        /\ Goto(p, GetFileContentEntry(c, EmptyLoc, id).frame)
        /\ files' = GetFileContentEntry(c, EmptyLoc, id).files
        /\ UNCHANGED <<initialized, index, disk, thumbs, cache, now, nextId>>

\* GET /cdn/:id, and GET /cdn/:id/download when download is true.
CdnFile(p, id, download, isAuthenticated) ==
    LET c == [op |-> "cdnFile", id |-> id, download |-> download,
              isAuthenticated |-> isAuthenticated]
    IN  /\ CanRead(id)
        /\ Begin(p, c)
        /\ Goto(p, GetFileContentEntry(c, EmptyLoc, id).frame)
        /\ files' = GetFileContentEntry(c, EmptyLoc, id).files
        /\ UNCHANGED <<initialized, index, disk, thumbs, cache, now, nextId>>

\* GET /cdn/:id/:preset.
CdnPreset(p, id, preset, isAuthenticated) ==
    LET c == [op |-> "cdnPreset", id |-> id, preset |-> preset,
              isAuthenticated |-> isAuthenticated]
    IN  IF ~IsSet(PRESETS(preset))
        THEN /\ Begin(p, c)
             /\ Step(p, "done", EmptyLoc, Ok([status |-> 404]))
             /\ UNCHANGED <<initialized, files, index, disk, thumbs, cache, now, nextId>>
        ELSE /\ CanRead(id)
             /\ Begin(p, c)
             /\ Goto(p, GetFileContentEntry(c, EmptyLoc, id).frame)
             /\ files' = GetFileContentEntry(c, EmptyLoc, id).files
             /\ UNCHANGED <<initialized, index, disk, thumbs, cache, now, nextId>>

\* GET /cdn/thumb/:id: getThumbnail up to `await file.exists()`.
CdnThumb(p, id, isAuthenticated) ==
    LET c == [op |-> "cdnThumb", id |-> id, isAuthenticated |-> isAuthenticated]
        metadata == MapGet(files, id)
    IN  /\ Begin(p, c)
        /\ IF ~IsSet(metadata) \/ ~IsSet(metadata[1].thumbnailUrl)
           THEN Step(p, "done", EmptyLoc, Ok([status |-> 404]))
           ELSE Step(p, "th_exists", [EmptyLoc EXCEPT !.did = id], NoRet)
        /\ UNCHANGED <<initialized, files, index, disk, thumbs, cache, now, nextId>>

\* await file.exists() of getThumbnail is over.
ThumbExists(p) ==
    /\ pc[p] = "th_exists"
    /\ Step(p, "done", EmptyLoc,
            IF loc[p].did \in thumbs THEN Ok([status |-> 200, thumb |-> loc[p].did])
            ELSE Ok([status |-> 404]))
    /\ UNCHANGED <<initialized, files, index, disk, thumbs, cache, now, nextId, call, solo>>

\* await cacheFile.exists() is over.
TransformExists(p) ==
    /\ pc[p] = "t_exists"
    /\ Step(p, IF loc[p].tpath \in DOMAIN cache THEN "t_read" ELSE "t_transform", loc[p], NoRet)
    /\ UNCHANGED <<initialized, files, index, disk, thumbs, cache, now, nextId, call, solo>>

\* await cacheFile.arrayBuffer() is over: the cached bytes, or a throw (the
\* route answers 500) when the file is gone.
TransformRead(p) ==
    /\ pc[p] = "t_read"
    /\ Step(p, "done", EmptyLoc,
            IF loc[p].tpath \in DOMAIN cache
            THEN Ok(ImageResponse(loc[p], cache[loc[p].tpath], TRUE))
            ELSE Ok(Response(500)))
    /\ UNCHANGED <<initialized, files, index, disk, thumbs, cache, now, nextId, call, solo>>

\* A transform whose failure leaves an empty cache file behind.
TransformDoneLeavingFile(p, ok) ==
    LET path == loc[p].meta[1].path
    IN  /\ pc[p] = "t_transform"
        /\ IF ok /\ path \in DOMAIN disk
           THEN /\ Step(p, "t_write",
                        [loc[p] EXCEPT !.tbuf = Some(transform(disk[path], loc[p].topts))], NoRet)
                /\ UNCHANGED cache
           ELSE /\ Step(p, "done", EmptyLoc, Ok([status |-> 500]))
                /\ cache' = (loc[p].tpath :> [tornOf |-> << >>]) @@ cache
        /\ UNCHANGED <<initialized, files, index, disk, thumbs, now, nextId, call, solo>>

\* await this.transform(inputPath, options) is over: sharp read the source
\* file and produced the buffer, or threw.
TransformDone(p, ok) ==
    LET path == loc[p].meta[1].path
    IN  /\ pc[p] = "t_transform"
        /\ IF ok /\ path \in DOMAIN disk
           THEN Step(p, "t_write",
                     [loc[p] EXCEPT !.tbuf = Some(transform(disk[path], loc[p].topts))], NoRet)
           ELSE Step(p, "done", EmptyLoc, Ok(Response(500)))
        /\ UNCHANGED <<initialized, files, index, disk, thumbs, cache, now, nextId, call, solo>>

\* A file that Bun.write has opened and not yet filled: it exists and holds
\* a part of buffer.
Torn(buffer) == [tornOf |-> buffer]

\* Bun.write(cachePath, buffer) is under way: it writes in place, so the
\* cache file exists, cut to nothing or partly filled, before the write is over.
TransformWriting(p) ==
    /\ pc[p] = "t_write"
    /\ loc[p].tpath \in DOMAIN cache => cache[loc[p].tpath] # Torn(loc[p].tbuf[1])
    /\ cache' = Put(cache, loc[p].tpath, Torn(loc[p].tbuf[1]))
    /\ UNCHANGED <<initialized, files, index, disk, thumbs, now, nextId, pc, call, loc, ret, solo>>

\* await Bun.write(cachePath, buffer) is over: the file is whole, or the
\* write threw and left the file as it was then.
TransformWrite(p, ok) ==
    /\ pc[p] = "t_write"
    /\ cache' = IF ok THEN Put(cache, loc[p].tpath, loc[p].tbuf[1]) ELSE cache
    /\ Step(p, "done", EmptyLoc,
            IF ok THEN Ok(ImageResponse(loc[p], loc[p].tbuf[1], FALSE)) ELSE Ok(Response(500)))
    /\ UNCHANGED <<initialized, files, index, disk, thumbs, now, nextId, call, solo>>

(* ---------------------------- specifications --------------------------- *)

DefaultParams == [page |-> 1, limit |-> 20, category |-> "all", search |-> << >>,
                  sortBy |-> "uploadedAt", sortOrder |-> "desc"]
ListParamSet == {DefaultParams,
                 [DefaultParams EXCEPT !.category = "images", !.sortBy = "size",
                                       !.sortOrder = "asc", !.limit = 1]}

\* ?w=100 and ?w=100&f=webp
QuerySet == {[NoQuery EXCEPT !.w = Some(<<49,48,48>>)],
             [NoQuery EXCEPT !.w = Some(<<49,48,48>>), !.f = Some(STR_webp)]}

\* { expiresIn: 1 } and { isPublic: false }
UpdateBodySet == {[isPublic |-> Undefined, tags |-> Undefined, expiresIn |-> Some(1)],
                  [isPublic |-> Some(FALSE), tags |-> Undefined, expiresIn |-> Undefined]}

(* What the requests of a specification may ask for and what the file      *)
(* system may answer: env.io are the outcomes of a write, unlink or        *)
(* readdir (TRUE: done, FALSE: it throws), env.image those of the image    *)
(* branch of upload.                                                        *)
UploadRequests(p, env) ==
    \/ \E file \in env.files, options \in env.options : UploadCall(p, file, options)
    \/ UploadScan(p)
    \/ \E ok \in env.io : UploadWrite(p, ok)
    \/ \E outcome \in env.image : UploadImage(p, outcome)
    \/ \E ok \in env.io : UploadSaved(p, ok)

Requests(p, env) ==
    \/ UploadRequests(p, env)
    \/ \E id \in IdSet : GetFile(p, id)
    \/ \E params \in env.params : ListFiles(p, params)
    \/ \E id \in IdSet : GetFileContent(p, id)
    \/ \E ok \in env.io : GetFileContentSaved(p, ok)
    \/ \E id \in IdSet, body \in env.bodies : UpdateFile(p, id, RouteUpdates(body))
    \/ \E ok \in env.io : UpdateSaved(p, ok)
    \/ \E id \in IdSet : DeleteFile(p, id)
    \/ \E ok \in env.io : DeleteUnlink(p, ok)
    \/ \E ok \in env.io : DeleteThumb(p, ok)
    \/ \E ok \in env.io : DeleteReaddir(p, ok)
    \/ \E name \in DOMAIN cache, ok \in env.io : DeletePurge(p, name, ok)
    \/ \E ok \in env.io : DeleteSaved(p, ok)
    \/ CleanupExpired(p)
    \/ \E id \in IdSet, query \in env.queries : CdnTransform(p, id, query, FALSE)
    \/ TransformExists(p)
    \/ TransformRead(p)
    \/ \E ok \in env.io : TransformDone(p, ok)
    \/ \E ok \in env.io : TransformWrite(p, ok)

\* A file system that always answers, and the requests of a small client.
WorkingEnv == [files |-> InputFiles, options |-> {NoOptions, PrivateExpiring},
               io |-> {TRUE}, image |-> {AllOk}, params |-> ListParamSet,
               bodies |-> {[isPublic |-> Undefined, tags |-> Undefined, expiresIn |-> Some(1)]},
               queries |-> {[NoQuery EXCEPT !.w = Some(<<49,48,48>>)]}]

\* A file system whose writes, unlinks and readdirs can throw.
FaultyEnv == [files |-> {PhotoFile, NotesFile}, options |-> {PrivateExpiring},
              io |-> BOOLEAN, image |-> {AllOk}, params |-> {DefaultParams},
              bodies |-> {[isPublic |-> Some(FALSE), tags |-> Undefined, expiresIn |-> Undefined]},
              queries |-> QuerySet]

\* Uploads of the same and of different content.
UploadEnv == [files |-> InputFiles, options |-> {NoOptions, PrivateExpiring},
              io |-> {TRUE}, image |-> {AllOk}]

\* One request at a time, on a working file system.
Next ==
    \/ StorageInit
    \/ Tick
    \/ Requests(1, WorkingEnv)

Spec == Init /\ [][Next]_vars

\* One request at a time, on a file system that can fail.
NextFaults ==
    \/ StorageInit
    \/ Tick
    \/ Requests(1, FaultyEnv)

SpecFaults == Init /\ [][NextFaults]_vars

\* One request at a time that uploads, updates, deletes or sweeps, on a
\* working file system.
NextWrites ==
    \/ StorageInit
    \/ Tick
    \/ UploadRequests(1, WorkingEnv)
    \/ \E id \in IdSet, body \in WorkingEnv.bodies : UpdateFile(1, id, RouteUpdates(body))
    \/ \E ok \in WorkingEnv.io : UpdateSaved(1, ok)
    \/ \E id \in IdSet : DeleteFile(1, id)
    \/ \E ok \in WorkingEnv.io : DeleteUnlink(1, ok)
    \/ \E ok \in WorkingEnv.io : DeleteThumb(1, ok)
    \/ \E ok \in WorkingEnv.io : DeleteReaddir(1, ok)
    \/ \E ok \in WorkingEnv.io : DeleteSaved(1, ok)
    \/ CleanupExpired(1)

SpecWrites == Init /\ [][NextWrites]_vars

\* Upload requests in flight together, interleaved at their awaits.
NextUploads ==
    \/ StorageInit
    \/ \E p \in Procs : UploadRequests(p, UploadEnv)

SpecUploads == Init /\ [][NextUploads]_vars

(* ---------------------------- properties ------------------------------- *)

\* Request p takes the step that leaves the duplicate scan of upload.
ScanStep(p) == pc[p] = "u_hash" /\ pc'[p] # "u_hash"

\* Request p calls operation op in this step.
CallStep(p, op) ==
    /\ Idle(p)
    /\ call'[p].op = op
    /\ <<call'[p], pc'[p], ret'[p]>> # <<call[p], pc[p], ret[p]>>

\* The indices of the records of fs with this checksum.
Matching(fs, checksum) == {i \in 1..Len(fs) : fs[i].checksum = checksum}

\* C1: an upload of bytes whose checksum is that of a record of the store
\* returns a record of the store with that checksum; the call writes no file,
\* adds no record and leaves every record, the index, the disk, the
\* thumbnails and the cache as they were, whatever options it carried.
DedupReturnsExisting ==
    [][\A p \in Procs :
         LET checksum == generateChecksum(call[p].file.bytes)
         IN  /\ CallStep(p, "upload") =>
                    UNCHANGED <<files, index, disk, thumbs, cache>>
             /\ (ScanStep(p) /\ Matching(files, checksum) # {}) =>
                    /\ pc'[p] = "done"
                    /\ ret'[p].kind = "ok"
                    /\ ret'[p].value.checksum = checksum
                    /\ \E i \in 1..Len(files) : files[i] = ret'[p].value
                    /\ UNCHANGED <<files, index, disk, thumbs, cache>>]_vars

\* An upload carrying public=false, expiresIn and tags has returned the
\* record of an earlier upload: public, without expiry, still in the store.
DedupReturned ==
    \E p \in Procs :
        /\ pc[p] = "done"
        /\ call[p].op = "upload"
        /\ call[p].options = PrivateExpiring
        /\ ret[p].kind = "ok"
        /\ ret[p].value.isPublic
        /\ ret[p].value.expiresAt = Undefined
        /\ ret[p].value.uploadedAt < now
        /\ \E i \in 1..Len(files) : files[i] = ret[p].value

\* C2: whatever the interleaving of concurrent uploads, no two records of
\* the store have the same checksum.
UniqueChecksums ==
    \A i, j \in 1..Len(files) : files[i].checksum = files[j].checksum => i = j

\* C3: a record that has expired is no duplicate candidate: when every record
\* with the checksum of the uploaded bytes has expired, the scan returns none
\* of them and the upload goes on to write a new record.
ExpiredIsNoDuplicate ==
    [][\A p \in Procs :
         LET matching == Matching(files, generateChecksum(call[p].file.bytes))
         IN  (/\ ScanStep(p)
              /\ matching # {}
              /\ \A i \in matching : IsExpiredAt(files[i], now))
             => pc'[p] = "u_write"]_vars

\* C4: getFile(id) returns absent for a record that has expired, and the
\* record when its expiresAt is unset or in the future.
GetFileHidesExpired ==
    [][\A p \in Procs :
         CallStep(p, "getFile") =>
             LET metadata == MapGet(files, call'[p].id)
             IN  ret'[p] = IF IsSet(metadata) /\ ~IsExpiredAt(metadata[1], now)
                           THEN Ok(metadata) ELSE Ok(Undefined)]_vars

\* C5: listFiles returns no expired record and counts none in total; every
\* live record that matches the filters is counted.
ListFilesHidesExpired ==
    [][\A p \in Procs :
         CallStep(p, "listFiles") =>
             LET live == SelectSeq(files, LAMBDA f : ~IsExpiredAt(f, now))
                 result == ret'[p].value
             IN  /\ \A i \in 1..Len(result.files) : ~IsExpiredAt(result.files[i], now)
                 /\ result.total = listFiles(live, call'[p].params).total]_vars

\* Request p returns from operation op in this step.
ReturnStep(p, op) ==
    /\ call'[p].op = op
    /\ pc'[p] = "done"
    /\ CallStep(p, op) \/ ~Idle(p)

\* C6: getFileContent(id) on an expired record does not count a download,
\* runs deleteFile, returns null and leaves no record with that id; on a
\* live record it returns the record and its file.
ReadEvictsExpired ==
    [][\A p \in Procs :
         LET metadata == MapGet(files, call'[p].id)
         IN  /\ (/\ CallStep(p, "getFileContent")
                 /\ IsSet(metadata)
                 /\ IsExpiredAt(metadata[1], now))
                => /\ files' = files
                   /\ pc'[p] = "d_unlink"
             /\ (ReturnStep(p, "getFileContent") /\ loc[p].dcaller = "gfc")
                => /\ ret'[p] = Ok(Undefined)
                   /\ ~HasId(files', call[p].id)
             /\ (ReturnStep(p, "getFileContent") /\ pc[p] = "g_save" /\ ret'[p].kind = "ok")
                => /\ IsSet(ret'[p].value)
                   /\ ret'[p].value[1].metadata.id = call[p].id
                   /\ ret'[p].value[1].file = ret'[p].value[1].metadata.path]_vars

\* C7: deleteFile(id) on an id of the store ends with no record of that id
\* in the store, also when the unlink of the file or the cache purge fails.
DeleteAlwaysRemovesRecord ==
    [][\A p \in Procs :
         (ReturnStep(p, "deleteFile") /\ ~Idle(p)) => ~HasId(files', call[p].id)]_vars

\* C8: once deleteFile(id) has returned true, no other request being in
\* flight, the file of the record, its thumbnail, every cached artifact of
\* the id and the record are gone, in the store and in the index, so that
\* getFile and getFileContent find nothing.
DeleteTrueLeavesNothing ==
    [][\A p \in Procs :
         (ReturnStep(p, "deleteFile") /\ ret'[p] = Ok(TRUE) /\ solo'[p])
         => LET id == call[p].id
            IN  /\ loc[p].dmeta[1].path \notin DOMAIN disk'
                /\ id \notin thumbs'
                /\ \A name \in DOMAIN cache' : ~startsWith(name, id)
                /\ ~HasId(files', id)
                /\ \A i \in 1..Len(index'.entries) : index'.entries[i].key # id
                /\ MapGet(files', id) = Undefined]_vars

\* C9: once cleanupExpired has returned, no other request being in flight,
\* the store holds no record whose expiresAt is set and earlier than the
\* time the sweep started, and every other record is there as it was.
SweepRemovesExactlyExpired ==
    [][\A p \in Procs :
         (ReturnStep(p, "cleanupExpired") /\ solo'[p])
         => LET before == loc'[p].before
                start == loc'[p].sweepNow
            IN  /\ \A i \in 1..Len(files') : ~IsExpiredAt(files'[i], start)
                /\ \A i \in 1..Len(before) :
                       ~IsExpiredAt(before[i], start)
                           => \E j \in 1..Len(files') : files'[j] = before[i]]_vars

\* C10: the number cleanupExpired returns is the number of records the
\* sweep removed from the store.
SweepCountsRemovals ==
    [][\A p \in Procs :
         (ReturnStep(p, "cleanupExpired") /\ solo'[p])
         => ret'[p] = Ok(Len(loc'[p].before) - Len(files'))]_vars

(* ---------------------------- concurrent sweeps ------------------------ *)

\* Records that expire, on a working file system.
ExpiringEnv == [files |-> {PhotoFile, NotesFile}, options |-> {PrivateExpiring},
                io |-> {TRUE}, image |-> {AllOk}]

\* Uploads one at a time, and sweeps in flight together.
NextSweeps ==
    \/ StorageInit
    \/ Tick
    \/ UploadRequests(1, ExpiringEnv)
    \/ \E p \in Procs :
        \/ CleanupExpired(p)
        \/ \E ok \in ExpiringEnv.io : DeleteUnlink(p, ok)
        \/ \E ok \in ExpiringEnv.io : DeleteThumb(p, ok)
        \/ \E ok \in ExpiringEnv.io : DeleteReaddir(p, ok)
        \/ \E ok \in ExpiringEnv.io : DeleteSaved(p, ok)

SpecSweeps == Init /\ [][NextSweeps]_vars

\* C11: sweeps interleaved at their awaits are safe: the unlink a sweep
\* starts for a record never fails because another sweep took the file (the
\* second attempt finds no record instead), and the counts two sweeps return
\* add up to no more than the number of records removed.
ConcurrentSweepsSafe ==
    [][\A p \in Procs :
         /\ (/\ call[p].op = "cleanupExpired"
             /\ pc[p] = "d_unlink"
             /\ <<pc'[p], loc'[p]>> # <<pc[p], loc[p]>>)
            => loc[p].dmeta[1].path \notin DOMAIN disk'
               /\ loc[p].dmeta[1].path \in DOMAIN disk
         /\ \A q \in Procs \ {p} :
                (/\ \A r \in Procs : Idle(r)'
                 /\ call'[p].op = "cleanupExpired"
                 /\ call'[q].op = "cleanupExpired")
                => ret'[p].value + ret'[q].value <= (nextId' - 1) - Len(files')]_vars

(* ---------------------------- concurrent reads ------------------------- *)

\* One text file, uploaded once.
NotesEnv == [files |-> {NotesFile}, options |-> {NoOptions}, io |-> {TRUE}, image |-> {AllOk}]

\* Content reads in flight together, and restarts between requests.
NextReads ==
    \/ StorageInit
    \/ RestartWhenIdle
    \/ UploadCall(1, NotesFile, NoOptions)
    \/ UploadScan(1)
    \/ \E ok \in NotesEnv.io : UploadWrite(1, ok)
    \/ \E ok \in NotesEnv.io : UploadSaved(1, ok)
    \/ \E p \in Procs :
        \/ \E id \in IdSet : GetFileContent(p, id)
        \/ \E ok \in NotesEnv.io : GetFileContentSaved(p, ok)

SpecReads == Init /\ [][NextReads]_vars

\* C12: the downloads counter of a record that stays in the store never
\* decreases, whatever the step (a request, or the index being persisted and
\* loaded again), and a record that enters the store by an upload starts at 0.
DownloadsNeverDecrease ==
    [][/\ \A i \in 1..Len(files), j \in 1..Len(files') :
              files[i].id = files'[j].id => files'[j].downloads >= files[i].downloads
       /\ \A p \in Procs, j \in 1..Len(files') :
              (call[p].op = "upload" /\ pc[p] = "u_write" /\ files'[j].id = loc[p].id)
                  => files'[j].downloads = 0]_vars

\* C13: content reads interleaved at their awaits lose no increment: the
\* call of getFileContent on a live record adds exactly one to its counter in
\* the Map, the rest of the call leaves the Map alone, and no other step of
\* a request changes the counter of a record that stays.
CountsEveryRead ==
    [][/\ \A p \in Procs :
         LET id == call'[p].id
             metadata == MapGet(files, id)
         IN  /\ (/\ CallStep(p, "getFileContent")
                 /\ IsSet(metadata)
                 /\ ~IsExpiredAt(metadata[1], now))
                => files' = MapSet(files, id,
                                   [metadata[1] EXCEPT !.downloads = metadata[1].downloads + 1])
             /\ (call[p].op = "getFileContent" /\ pc[p] = "g_save" /\ pc'[p] # "g_save")
                => files' = files
       /\ (\E p \in Procs : call'[p].op # "none")
          => \A i \in 1..Len(files), j \in 1..Len(files') :
                 (files[i].id = files'[j].id /\ files'[j].downloads # files[i].downloads)
                     => \E p \in Procs : /\ CallStep(p, "getFileContent")
                                         /\ call'[p].id = files[i].id]_vars

\* Two reads of one record were in flight together and have both returned it:
\* its counter stands at two.
TwoReadsCounted ==
    \E p, q \in Procs :
        /\ p # q
        /\ pc[p] = "done" /\ pc[q] = "done"
        /\ call[p] = call[q]
        /\ call[p].op = "getFileContent"
        /\ ~solo[p] /\ ~solo[q]
        /\ ret[p].kind = "ok" /\ ret[q].kind = "ok"
        /\ IsSet(ret[p].value) /\ IsSet(ret[q].value)
        /\ MapGet(files, call[p].id) # Undefined
        /\ MapGet(files, call[p].id)[1].downloads = 2

(* ---------------------------- persistence ------------------------------ *)

\* Two files, and a file system that can fail.
PersistEnv == [files |-> {PhotoFile, NotesFile}, options |-> {NoOptions},
               io |-> BOOLEAN, image |-> {AllOk},
               bodies |-> {[isPublic |-> Some(FALSE), tags |-> Undefined,
                            expiresIn |-> Undefined]}]

\* One mutating request at a time, on a file system that can fail.
NextPersist ==
    \/ StorageInit
    \/ UploadRequests(1, PersistEnv)
    \/ \E id \in IdSet, body \in PersistEnv.bodies : UpdateFile(1, id, RouteUpdates(body))
    \/ \E ok \in PersistEnv.io : UpdateSaved(1, ok)
    \/ \E id \in IdSet : DeleteFile(1, id)
    \/ \E ok \in PersistEnv.io : DeleteUnlink(1, ok)
    \/ \E ok \in PersistEnv.io : DeleteThumb(1, ok)
    \/ \E ok \in PersistEnv.io : DeleteReaddir(1, ok)
    \/ \E ok \in PersistEnv.io : DeleteSaved(1, ok)
    \/ \E id \in IdSet : GetFileContent(1, id)
    \/ \E ok \in PersistEnv.io : GetFileContentSaved(1, ok)

SpecPersist == Init /\ [][NextPersist]_vars

\* Request p returns from a mutating operation that succeeded.
MutationReturns(p) ==
    \/ ReturnStep(p, "upload") /\ pc[p] = "u_save" /\ ret'[p].kind = "ok"
    \/ ReturnStep(p, "updateFile") /\ ret'[p].kind = "ok" /\ IsSet(ret'[p].value)
    \/ ReturnStep(p, "deleteFile") /\ ret'[p] = Ok(TRUE)
    \/ ReturnStep(p, "getFileContent") /\ ret'[p].kind = "ok" /\ IsSet(ret'[p].value)

\* C14: when a mutating operation returns successfully and no other request
\* is in flight, the index file holds exactly the records of the Map, with
\* the same field values.
WriteThrough ==
    [][\A p \in Procs :
         (MutationReturns(p) /\ solo'[p])
             => index'.exists /\ loadMetadata(index') = files']_vars

\* deleteFile has returned true and has left one record, which had been
\* read before: the index holds that record.
IndexCaughtUp ==
    \E p \in Procs :
        /\ pc[p] = "done"
        /\ call[p].op = "deleteFile"
        /\ ret[p] = Ok(TRUE)
        /\ solo[p]
        /\ Len(files) = 1
        /\ loadMetadata(index) = files
        /\ files[1].downloads > 0

\* One mutating request at a time on a file system that can fail, and a
\* process that can stop at any step and start again.
NextRestart ==
    \/ NextPersist
    \/ Restart

SpecRestart == Init /\ [][NextRestart]_vars

\* The process is started again in this step.
RestartStep ==
    /\ initialized
    /\ \E p \in Procs : call[p].op # "none"
    /\ \A p \in Procs : call'[p].op = "none"

FailedUploadCommitsNothing ==
    [][\A p \in Procs :
         (ReturnStep(p, "upload") /\ ret'[p] = Throw("io"))
             => ~HasId(files', loc[p].id)]_vars

(* ---------------------------- crashes during upload -------------------- *)

\* Uploads on a file system that can fail.
CrashEnv == [files |-> {PhotoFile, NotesFile}, options |-> {NoOptions, ResizeNoThumb},
             io |-> BOOLEAN, image |-> {AllOk}]

\* Uploads in flight together, and a process that can stop at any step and
\* start again.
NextCrash ==
    \/ StorageInit
    \/ Restart
    \/ \E p \in Procs : UploadRequests(p, CrashEnv)

SpecCrash == Init /\ [][NextCrash]_vars

\* C17: at whatever step of an upload the process stops, the index file
\* holds no record of the upload whose file is not on disk.
IndexedFilesExist ==
    \A i \in 1..Len(index.entries) : index.entries[i].value.path \in DOMAIN disk

\* The process stopped between the write of the bytes and the write of the
\* index and was started again: a file is on disk that no record of the Map
\* and no member of the index names.
OrphanFileAfterCrash ==
    /\ initialized
    /\ \A p \in Procs : call[p].op = "none"
    /\ \E path \in DOMAIN disk :
          /\ \A i \in 1..Len(index.entries) : index.entries[i].value.path # path
          /\ \A i \in 1..Len(files) : files[i].path # path

(* ---------------------------- validation ------------------------------- *)

\* C18: an upload that validateFile rejects fails in the step it is called
\* in, with the Map, the index file, the disk, the thumbnails, the cache
\* and the id generator as they were; the 600 MB video is such an upload.
RejectedBeforeSideEffects ==
    [][\A p \in Procs :
          /\ (ReturnStep(p, "upload") /\ ret'[p] \in {Throw("size"), Throw("type")})
                => /\ CallStep(p, "upload")
                   /\ UNCHANGED <<files, index, disk, thumbs, cache, nextId>>
          /\ (CallStep(p, "upload") /\ call'[p].file = VideoFile)
                => /\ pc'[p] = "done"
                   /\ ret'[p] = Throw("size")]_vars

\* The 600 MB video has been rejected by a store that holds a record.
VideoRejected ==
    \E p \in Procs :
        /\ call[p].op = "upload"
        /\ call[p].file = VideoFile
        /\ pc[p] = "done"
        /\ ret[p] = Throw("size")
        /\ files # << >>

(* ---------------------------- validateFile as a function ------------- *)

\* Declared types: for each category one of its allow-list and one outside
\* it, and types of no category.
MimeTypes ==
    {
      <<105,109,97,103,101,47,112,110,103>>,   \* image/png
      <<105,109,97,103,101,47,98,109,112>>,   \* image/bmp
      <<116,101,120,116,47,112,108,97,105,110>>,   \* text/plain
      <<116,101,120,116,47,104,116,109,108>>,   \* text/html
      <<97,112,112,108,105,99,97,116,105,111,110,47,112,100,102>>,   \* application/pdf
      <<118,105,100,101,111,47,109,112,52>>,   \* video/mp4
      <<118,105,100,101,111,47,120,45,102,108,118>>,   \* video/x-flv
      <<97,117,100,105,111,47,109,112,101,103>>,   \* audio/mpeg
      <<97,117,100,105,111,47,109,105,100,105>>,   \* audio/midi
      <<97,112,112,108,105,99,97,116,105,111,110,47,122,105,112>>,   \* application/zip
      <<97,112,112,108,105,99,97,116,105,111,110,47,111,99,116,101,116,45,115,116,114,101,97,109>>,   \* application/octet-stream
      << >> }   \* the empty string

\* Sizes around each ceiling of MAX_SIZES.
FileSizes ==
    {0} \cup UNION {{MAX_SIZES(c) - 1, MAX_SIZES(c), MAX_SIZES(c) + 1} : c \in Categories}

\* validateFile(mimeType, size), called by request p.
ValidateFile(p, mimeType, size) ==
    /\ Idle(p)
    /\ call' = [call EXCEPT ![p] = [op |-> "validateFile", mimeType |-> mimeType,
                                    size |-> size]]
    /\ Step(p, "done", EmptyLoc, Ok(validateFile(mimeType, size)))
    /\ UNCHANGED <<files, initialized, index, disk, thumbs, cache, now, nextId, solo>>

\* One caller, time and again.
NextValidate ==
    \E mimeType \in MimeTypes, size \in FileSizes : ValidateFile(1, mimeType, size)

SpecValidate == Init /\ [][NextValidate]_vars

\* The ceilings in bytes: 10 MB, 50 MB, 500 MB, 50 MB, 25 MB.
Ceiling ==
    [images |-> 10485760, documents |-> 52428800, videos |-> 524288000,
     audio |-> 52428800, others |-> 26214400]

\* C19: validateFile(mimeType, size) answers valid exactly when size is at
\* most the ceiling of the category of mimeType and the category is others
\* or mimeType is in the allow-list of the category.
ValidExactlyWhenAllowed ==
    \A p \in Procs :
        call[p].op = "validateFile" =>
            LET category == getFileCategory(call[p].mimeType)
            IN  ret[p].value.valid
                  <=> /\ call[p].size <= Ceiling[category]
                      /\ \/ category = "others"
                         \/ call[p].mimeType \in ALLOWED_TYPES(category)

\* A file of no category and of exactly 25 MB was accepted.
CeilingAccepted ==
    /\ call[1].op = "validateFile"
    /\ getFileCategory(call[1].mimeType) = "others"
    /\ call[1].size = 26214400
    /\ ret[1].value.valid

(* ---------------------------- listFiles over a loaded store ------------ *)

STR_logo_png == <<108,111,103,111,46,112,110,103>>   \* "logo.png"
STR_p == <<112>>                                     \* "p"

LogoFile == [name |-> STR_logo_png, type |-> STR_image_png, size |-> 2048,
             bytes |-> "logo", dims |-> Some([width |-> 2, height |-> 2])]

\* The record an earlier process made of its n-th upload, `file`, at time
\* uploadedAt, read since then `downloads` times.
StoredFile(n, file, uploadedAt, downloads, tags) ==
    LET mimeType == EffectiveMimeType(file)
        category == getFileCategory(mimeType)
        fileName == generateFileId(n) \o <<46>> \o getExtension(file.name)
    IN  [id |-> generateFileId(n),
         originalName |-> file.name,
         fileName |-> fileName,
         mimeType |-> mimeType,
         size |-> file.size,
         category |-> category,
         path |-> FilePath(category, fileName),
         thumbnailUrl |-> Undefined,
         width |-> Undefined,
         height |-> Undefined,
         uploadedAt |-> uploadedAt,
         expiresAt |-> Undefined,
         downloads |-> downloads,
         isPublic |-> TRUE,
         checksum |-> generateChecksum(file.bytes),
         tags |-> tags]

StoredFiles == {StoredFile(1, PhotoFile, 300, 1, Undefined),
                StoredFile(2, NotesFile, 100, 0, Some(<<STR_work>>)),
                StoredFile(3, LogoFile, 200, 2, Undefined)}

\* The stores an earlier process can have left: the records of StoredFiles,
\* some or all, in any order of insertion.
Stores ==
    {s \in UNION {[1..n -> StoredFiles] : n \in 0..Cardinality(StoredFiles)} :
        \A i, j \in 1..Len(s) : i # j => s[i] # s[j]}

\* The largest page number and the largest limit asked for.
MaxPage == 2
MaxLimit == 2

PageParams ==
    [page : 1..MaxPage, limit : 1..MaxLimit, category : {"all", "images"},
     search : {<< >>, STR_p}, sortBy : {"uploadedAt", "size"},
     sortOrder : {"asc", "desc"}]

\* The service object is constructed next to the index file an earlier
\* process left.
InitStored ==
    /\ files = << >>
    /\ initialized = FALSE
    /\ index \in {Snapshot(s) : s \in Stores}
    /\ disk = << >>
    /\ thumbs = {}
    /\ cache = << >>
    /\ now = 1000
    /\ nextId = 1
    /\ pc = [p \in Procs |-> "idle"]
    /\ call = [p \in Procs |-> [op |-> "none"]]
    /\ loc = [p \in Procs |-> EmptyLoc]
    /\ ret = [p \in Procs |-> NoRet]
    /\ solo = [p \in Procs |-> FALSE]

\* One client lists the loaded store.
NextPages ==
    \/ StorageInit
    \/ \E params \in PageParams : ListFiles(1, params)

SpecPages == InitStored /\ [][NextPages]_vars

\* The records of fs that pass the filters of params, in the order of params.
FilteredSorted(fs, params) ==
    LET byCategory == SelectSeq(fs, LAMBDA f : params.category = "all"
                                               \/ f.category = params.category)
        bySearch == SelectSeq(byCategory,
                              LAMBDA f : params.search = << >>
                                         \/ MatchesSearch(f, toLowerCase(params.search)))
    IN  SortFiles(bySearch, params.sortBy, params.sortOrder)

\* Pages k to n of listFiles(fs, params), one after the other.
RECURSIVE PagesFrom(_, _, _, _)
PagesFrom(fs, params, k, n) ==
    IF k > n THEN << >>
    ELSE listFiles(fs, [params EXCEPT !.page = k]).files \o PagesFrom(fs, params, k + 1, n)

\* C20: when listFiles is called with a limit above 0, totalPages is the
\* least number of pages of that limit that hold all the records that pass
\* the filters, and pages 1 to totalPages, one after the other, are the
\* filtered and sorted records, each once; the page returned is the one of
\* its number.
PagesPartitionListing ==
    [][\A p \in Procs :
          (CallStep(p, "listFiles") /\ call'[p].params.limit > 0) =>
              LET params == call'[p].params
                  result == ret'[p].value
                  all == PagesFrom(files, params, 1, result.totalPages)
              IN  /\ result.total = Len(FilteredSorted(files, params))
                  /\ result.totalPages >= 0
                  /\ result.totalPages * params.limit >= result.total
                  /\ (result.totalPages - 1) * params.limit < result.total
                  /\ all = FilteredSorted(files, params)
                  /\ \A i, j \in 1..Len(all) : i # j => all[i].id # all[j].id
                  /\ params.page \in 1..result.totalPages =>
                        result.files = SubSeq(FilteredSorted(files, params),
                                              (params.page - 1) * params.limit + 1,
                                              Min(params.page * params.limit, result.total))]_vars

\* The second and last page of three records listed two by two: one record.
LastPageReturned ==
    /\ Len(files) = 3
    /\ call[1].op = "listFiles"
    /\ call[1].params.category = "all"
    /\ call[1].params.search = << >>
    /\ call[1].params.limit = 2
    /\ call[1].params.page = 2
    /\ ret[1].value.totalPages = 2
    /\ Len(ret[1].value.files) = 1

(* ---------------------------- pages out of range ----------------------- *)

\* ?page=<n>&limit=<m> with n below, in and above the range of pages.
AnyPageParams ==
    {[DefaultParams EXCEPT !.page = page, !.limit = limit] :
        page \in (0 - MaxPage)..(MaxPage + 1), limit \in 1..MaxLimit}

NextAnyPages ==
    \/ StorageInit
    \/ \E params \in AnyPageParams : ListFiles(1, params)

SpecAnyPages == InitStored /\ [][NextAnyPages]_vars

\* C21: listFiles called with a limit above 0 and a page number that is not
\* in 1..totalPages returns no files.
OutOfRangePageIsEmpty ==
    [][\A p \in Procs :
          (/\ CallStep(p, "listFiles")
           /\ call'[p].params.limit > 0
           /\ call'[p].params.page \notin 1..ret'[p].value.totalPages)
              => /\ ret'[p].kind = "ok"
                 /\ ret'[p].value.files = << >>]_vars

(* ---------------------------- filters and sort orders ------------------ *)

STR_WO == <<87,79>>                                  \* "WO"

\* ?category=..&search=..&sortBy=..&sortOrder=.. with the default page and limit.
ListingParams ==
    {[DefaultParams EXCEPT !.category = category, !.search = search,
                           !.sortBy = sortBy, !.sortOrder = sortOrder] :
        category \in {"all", "images", "documents"}, search \in {<< >>, STR_p, STR_WO},
        sortBy \in SortKeys, sortOrder \in {"asc", "desc"}}

NextListing ==
    \/ StorageInit
    \/ \E params \in ListingParams : ListFiles(1, params)

SpecListing == InitStored /\ [][NextListing]_vars

\* a comes no later than b by sortBy: numbers as numbers, names lower-cased.
KeyAtMost(a, b, sortBy) ==
    IF sortBy = "originalName"
    THEN ~StrLess(toLowerCase(b.originalName), toLowerCase(a.originalName))
    ELSE a[sortBy] <= b[sortBy]

\* C22: in the sequence listFiles returns, every record and the one after it
\* are in the order of sortBy: the key of the first is at most the key of the
\* second when sortOrder is asc, and at least when it is desc.
ListingIsSorted ==
    [][\A p \in Procs :
          (CallStep(p, "listFiles") /\ call'[p].params.sortBy \in SortKeys) =>
              LET params == call'[p].params
                  listed == ret'[p].value.files
              IN  \A i \in 1..(Len(listed) - 1) :
                     IF params.sortOrder = "asc"
                     THEN KeyAtMost(listed[i], listed[i + 1], params.sortBy)
                     ELSE KeyAtMost(listed[i + 1], listed[i], params.sortBy)]_vars

\* Three records that were inserted in another order are listed whole, by
\* name, ascending: logo.png, notes.txt, Photo.PNG.
ListedByName ==
    /\ call[1].op = "listFiles"
    /\ call[1].params.sortBy = "originalName"
    /\ call[1].params.sortOrder = "asc"
    /\ Len(files) = 3
    /\ files[1].originalName = STR_Photo_PNG
    /\ Len(ret[1].value.files) = 3
    /\ ret[1].value.files[3].originalName = STR_Photo_PNG

\* needle occurs in hay, both lower-cased.
OccursIn(needle, hay) ==
    LET n == toLowerCase(needle)
        h == toLowerCase(hay)
    IN  \E from \in 1..(Len(h) - Len(n) + 1) : SubSeq(h, from, from + Len(n) - 1) = n

\* Record r passes the filters of params.
PassesFilters(r, params) ==
    /\ params.category = "all" \/ r.category = params.category
    /\ \/ params.search = << >>
       \/ OccursIn(params.search, r.originalName)
       \/ /\ r.tags # Undefined
          /\ \E i \in 1..Len(r.tags[1]) : OccursIn(params.search, r.tags[1][i])

\* C23: the records listFiles lists, and counts in total, are exactly the
\* records of the Map of the category asked for (any, for 'all') whose name
\* or one of whose tags holds the search term, whatever the case of either;
\* a record without tags is matched on its name.
ListingIsFiltered ==
    [][\A p \in Procs :
          (/\ CallStep(p, "listFiles")
           /\ call'[p].params.page = 1
           /\ call'[p].params.limit > Len(files)) =>
              LET params == call'[p].params
                  result == ret'[p].value
                  passing == {i \in 1..Len(files) : PassesFilters(files[i], params)}
              IN  /\ result.total = Cardinality(passing)
                  /\ Len(result.files) = result.total
                  /\ {result.files[i] : i \in 1..Len(result.files)}
                        = {files[i] : i \in passing}]_vars

\* Of three records, the search for "WO" lists the one tagged "work", whose
\* name does not hold the term.
ListedByTag ==
    /\ call[1].op = "listFiles"
    /\ call[1].params.search = STR_WO
    /\ call[1].params.category = "all"
    /\ Len(files) = 3
    /\ ret[1].value.total = 1
    /\ ret[1].value.files[1].originalName = STR_notes_txt

(* ---------------------------- the transform cache ---------------------- *)

\* One image is uploaded and transforms of it are asked for.  The transform
\* and the write of the artifact can fail, and the write is followed while
\* it is under way.
CacheEnv == [files |-> {PhotoFile}, options |-> {NoOptions}, io |-> {TRUE},
             image |-> {AllOk}, queries |-> QuerySet]

NextCache ==
    \/ StorageInit
    \/ UploadRequests(1, CacheEnv)
    \/ \E p \in Procs :
          \/ \E id \in IdSet, query \in CacheEnv.queries : CdnTransform(p, id, query, FALSE)
          \/ GetFileContentSaved(p, TRUE)
          \/ TransformExists(p)
          \/ TransformRead(p)
          \/ \E ok \in BOOLEAN : TransformDone(p, ok)
          \/ TransformWriting(p)
          \/ \E ok \in BOOLEAN : TransformWrite(p, ok)

SpecCache == Init /\ [][NextCache]_vars

\* The transform route answered request p with an image.
Served(r) == r.kind = "ok" /\ r.value.status = 200

\* C24: with nothing deleted, a transform request that runs alone and is
\* served after an earlier request for the same file and the same query was
\* served is a hit with the bytes of the earlier answer; a hit returns the
\* bytes the cache holds and leaves the cache as it is, so that a request on
\* an empty cache is no hit; a miss stores the bytes it returns.
MissThenHit ==
    [][\A q \in Procs :
          (ReturnStep(q, "cdnTransform") /\ solo'[q] /\ Served(ret'[q])) =>
              LET key == loc[q].tpath
                  response == ret'[q].value
              IN  /\ \A p \in Procs \ {q} :
                        (/\ pc[p] = "done"
                         /\ call[p] = call[q]
                         /\ Served(ret[p]))
                            => /\ response.xcache = "HIT"
                               /\ response.body = ret[p].value.body
                  /\ response.xcache = "HIT"
                        => /\ key \in DOMAIN cache
                           /\ response.body = cache[key]
                           /\ cache' = cache
                  /\ response.xcache = "MISS"
                        => /\ key \in DOMAIN cache'
                           /\ cache'[key] = response.body]_vars

\* A transform asked for a second time was answered from the cache.
SecondCallHit ==
    /\ pc[1] = "done"
    /\ pc[2] = "done"
    /\ call[1].op = "cdnTransform"
    /\ call[2] = call[1]
    /\ solo[2]
    /\ Served(ret[1])
    /\ Served(ret[2])
    /\ ret[1].value.xcache = "MISS"
    /\ ret[2].value.xcache = "HIT"
    /\ ret[2].value.body = ret[1].value.body

\* C25: of the getCachedTransform calls in flight for one key, at most one
\* has run the transform pipeline.
OneComputationPerKey ==
    \A p, q \in Procs :
        (/\ p # q
         /\ pc[p] = "t_write"
         /\ pc[q] = "t_write"
         /\ loc[p].tpath = loc[q].tpath)
            => ~(IsSet(loc[p].tbuf) /\ IsSet(loc[q].tbuf))

\* C26: a getCachedTransform that found the cache file returns a whole
\* artifact, never a part of one.
NoTornRead ==
    [][\A p \in Procs :
          (/\ ReturnStep(p, "cdnTransform")
           /\ Served(ret'[p])
           /\ ret'[p].value.xcache = "HIT")
              => "tornOf" \notin DOMAIN ret'[p].value.body]_vars

\* C27: a getCachedTransform whose transform fails is answered with an
\* error and leaves the cache as it was; when it ran alone the cache holds
\* no file of its key afterwards, so that the next call is a miss.  Only a
\* call whose transform has produced its bytes changes the cache.
FailedTransformLeavesCache ==
    [][/\ \A p \in Procs :
             (pc[p] = "t_transform" /\ pc'[p] = "done") =>
                 /\ ret'[p] = Ok(Response(500))
                 /\ cache' = cache
                 /\ solo'[p] => loc[p].tpath \notin DOMAIN cache'
       /\ cache' # cache => \E p \in Procs : pc[p] = "t_write" /\ IsSet(loc[p].tbuf)]_vars

\* A transform request that ran alone was answered with an error and the
\* cache is empty.
TransformFailedCacheEmpty ==
    \E p \in Procs :
        /\ call[p].op = "cdnTransform"
        /\ pc[p] = "done"
        /\ solo[p]
        /\ ret[p] = Ok(Response(500))
        /\ cache = << >>

(* ---------------------------- the CDN routes --------------------------- *)

\* What an earlier process left: an image that is not public, with its
\* thumbnail, and a text file that is public.
PrivatePhoto ==
    [StoredFile(1, PhotoFile, 300, 0, Undefined) EXCEPT
        !.isPublic = FALSE, !.thumbnailUrl = Some(generateFileId(1)),
        !.width = Some(4), !.height = Some(2)]
PublicNotes == StoredFile(2, NotesFile, 100, 0, Undefined)

InitServing ==
    /\ files = << >>
    /\ initialized = FALSE
    /\ index = Snapshot(<<PrivatePhoto, PublicNotes>>)
    /\ disk = (PrivatePhoto.path :> [bytes |-> PhotoFile.bytes])
                 @@ (PublicNotes.path :> [bytes |-> NotesFile.bytes])
    /\ thumbs = {PrivatePhoto.id}
    /\ cache = << >>
    /\ now = 1000
    /\ nextId = 1
    /\ pc = [p \in Procs |-> "idle"]
    /\ call = [p \in Procs |-> [op |-> "none"]]
    /\ loc = [p \in Procs |-> EmptyLoc]
    /\ ret = [p \in Procs |-> NoRet]
    /\ solo = [p \in Procs |-> FALSE]

\* The transforms and the presets a client asks for: a preset of the table,
\* a name every object inherits, and a name that is neither.
CdnEnv == [queries |-> {[NoQuery EXCEPT !.w = Some(<<49,48,48>>)]},
           presets |-> {STR_avatar, STR_constructor, STR_huge}]

\* One client, with or without an API key, asks the CDN for the two files.
NextCdn ==
    \/ StorageInit
    \/ \E id \in IdSet, isAuthenticated \in BOOLEAN :
          \/ \E download \in BOOLEAN : CdnFile(1, id, download, isAuthenticated)
          \/ CdnThumb(1, id, isAuthenticated)
          \/ \E query \in CdnEnv.queries : CdnTransform(1, id, query, isAuthenticated)
          \/ \E preset \in CdnEnv.presets : CdnPreset(1, id, preset, isAuthenticated)
    \/ GetFileContentSaved(1, TRUE)
    \/ ThumbExists(1)
    \/ TransformExists(1)
    \/ TransformRead(1)
    \/ TransformDone(1, TRUE)
    \/ TransformWriting(1)
    \/ TransformWrite(1, TRUE)

SpecCdn == InitServing /\ [][NextCdn]_vars

CdnRoutes == {"cdnFile", "cdnThumb", "cdnTransform", "cdnPreset"}

\* C28: no CDN route answers a request without a valid API key with the
\* file, the thumbnail or a transform of a record that is not public.
PrivateNeedsKey ==
    [][\A p \in Procs :
          (/\ \E route \in CdnRoutes : ReturnStep(p, route)
           /\ ret'[p].kind = "ok"
           /\ ret'[p].value.status = 200
           /\ ~call'[p].isAuthenticated)
              => \A i \in 1..Len(files') :
                    files'[i].id = call'[p].id => files'[i].isPublic]_vars

\* C29: a preset request that names no preset of the table is answered 404
\* in the step it arrives in, with the Map, the index, the disk and the
\* cache as they were; a request for a preset of the table on a record whose
\* type is not image/* is answered with the stored file, never enters
\* getCachedTransform and leaves the cache as it was.
PresetPassthrough ==
    [][\A p \in Procs :
          /\ (CallStep(p, "cdnPreset") /\ call'[p].preset \notin PresetNames)
                => /\ pc'[p] = "done"
                   /\ ret'[p] = Ok([status |-> 404])
                   /\ UNCHANGED <<files, index, disk, thumbs, cache>>
          /\ (/\ call'[p].op = "cdnPreset"
              /\ call'[p].preset \in PresetNames
              /\ CallStep(p, "cdnPreset") \/ ~Idle(p)
              /\ \E i \in 1..Len(files') :
                    /\ files'[i].id = call'[p].id
                    /\ ~startsWith(files'[i].mimeType, STR_image_prefix))
                => /\ cache' = cache
                   /\ pc'[p] \in {"g_save", "done"}
                   /\ pc'[p] = "done"
                         => \E i \in 1..Len(files') :
                               /\ files'[i].id = call'[p].id
                               /\ ret'[p] = Ok(FileResponse(files'[i]))]_vars

(* ---------------------------- derived data of an upload ---------------- *)

\* Images are uploaded, with and without a resize, and each of the three
\* try blocks of the image branch can fail.
DerivedEnv == [files |-> {PhotoFile, LogoFile}, options |-> {NoOptions, ResizeNoThumb},
               io |-> {TRUE}, image |-> ImageOutcomes]

NextDerived ==
    \/ StorageInit
    \/ UploadRequests(1, DerivedEnv)

SpecDerived == Init /\ [][NextDerived]_vars

\* The image branch of p is over with `outcome`: the record is in the Map,
\* the upload is at its index write, and the record has no thumbnailUrl
\* when the thumbnail failed or was not asked for.
ImageBranchCommits(p, outcome) ==
    LET metadata == loc'[p].meta[1]
    IN  /\ pc'[p] = "u_save"
        /\ HasId(files', metadata.id)
        /\ MapGet(files', metadata.id) = Some(metadata)
        /\ (call[p].options.generateThumbnail = Some(FALSE) \/ ~outcome.thumb)
              => metadata.thumbnailUrl = Undefined

\* The index write of p is over: the upload returns the record, which is in
\* the Map and in the index.
UploadReturnsRecord(p) ==
    (pc[p] = "u_save" /\ pc'[p] = "done") =>
        /\ ret'[p] = Ok(loc[p].meta[1])
        /\ MapGet(files', loc[p].meta[1].id) = loc[p].meta
        /\ MapGet(loadMetadata(index'), loc[p].meta[1].id) = loc[p].meta

\* C30, as stated: whatever fails in the image branch, the upload commits,
\* persists and returns the record, without thumbnailUrl when the thumbnail
\* failed or was not asked for, and without width and height when the
\* extraction of the dimensions failed.
DerivedDataAdvisoryAsStated ==
    [][\A p \in Procs :
          /\ UploadReturnsRecord(p)
          /\ \A outcome \in ImageOutcomes :
                UploadImage(p, outcome) =>
                    /\ ImageBranchCommits(p, outcome)
                    /\ ~outcome.dims
                          => /\ loc'[p].meta[1].width = Undefined
                             /\ loc'[p].meta[1].height = Undefined]_vars

\* The resize of the image branch ran through: transform, the write and the
\* second getMetadata.
Resized(p, outcome) ==
    /\ Truthy(call[p].options.maxWidth) \/ Truthy(call[p].options.maxHeight)
    /\ outcome.resize = "ok"

\* C30, amended: as stated, but width and height are unset when the
\* extraction failed and no resize ran through after it; a resize that ran
\* through sets them to the dimensions it read from the resized file.
DerivedDataAdvisory ==
    [][\A p \in Procs :
          /\ UploadReturnsRecord(p)
          /\ \A outcome \in ImageOutcomes :
                UploadImage(p, outcome) =>
                    /\ ImageBranchCommits(p, outcome)
                    /\ (~outcome.dims /\ ~Resized(p, outcome))
                          => /\ loc'[p].meta[1].width = Undefined
                             /\ loc'[p].meta[1].height = Undefined
                    /\ (Resized(p, outcome) /\ IsSet(call[p].file.dims))
                          => /\ IsSet(loc'[p].meta[1].width)
                             /\ IsSet(loc'[p].meta[1].height)]_vars

\* An upload of a decodable image that asked for a thumbnail has returned a
\* persisted record with no thumbnailUrl, no width and no height.
UploadedWithoutDerivedData ==
    /\ call[1].op = "upload"
    /\ pc[1] = "done"
    /\ IsSet(call[1].file.dims)
    /\ call[1].options.generateThumbnail = Undefined
    /\ ret[1].kind = "ok"
    /\ ret[1].value.thumbnailUrl = Undefined
    /\ ret[1].value.width = Undefined
    /\ ret[1].value.height = Undefined
    /\ MapGet(loadMetadata(index), ret[1].value.id) = Some(ret[1].value)

(* ---------------------------- concurrent mutations --------------------- *)

\* C31: when mutating operations (here an upload and content reads) run
\* interleaved, each taking its snapshot of the Map and then writing the
\* index file, then once all of them have returned without a throw the
\* index file holds exactly the Map: no earlier snapshot has overwritten a
\* later one.
IndexEqualsMapAtRest ==
    ((\A p \in Procs : Idle(p) /\ ret[p].kind # "throw") /\ initialized)
        => loadMetadata(index) = files

(* ---------------------------- updateFile over a loaded store ----------- *)

\* The bodies of PATCH /api/files/:id: each of isPublic, tags and expiresIn
\* sent or not.
UpdateBodies ==
    [isPublic : {Undefined, Some(FALSE)}, tags : {Undefined, Some(<<STR_p>>)},
     expiresIn : {Undefined, Some(1)}]

\* One client updates the records of the loaded store, and ids it does not
\* hold.
NextUpdates ==
    \/ StorageInit
    \/ \E id \in IdSet, body \in UpdateBodies : UpdateFile(1, id, RouteUpdates(body))
    \/ UpdateSaved(1, TRUE)

SpecUpdates == InitStored /\ [][NextUpdates]_vars

\* C33: updateFile(id, updates) sets those of isPublic, tags and expiresAt
\* that updates supplies on the record id and leaves its other fields, the
\* other records and their order as they were; when it returns the record
\* the index file holds the Map; for an id the store does not hold it
\* returns null and leaves the Map and the index file as they were.
UpdateChangesSuppliedOnly ==
    [][\A p \in Procs :
         LET id == call'[p].id
             updates == call'[p].updates
             old == MapGet(files, id)
         IN  /\ (CallStep(p, "updateFile") /\ ~IsSet(old))
                => /\ ret'[p] = Ok(Undefined)
                   /\ files' = files
                   /\ index' = index
             /\ (CallStep(p, "updateFile") /\ IsSet(old))
                => /\ Len(files') = Len(files)
                   /\ \A i \in 1..Len(files) :
                        IF files[i].id # id THEN files'[i] = files[i]
                        ELSE /\ \A f \in DOMAIN files[i] \ {"isPublic", "tags", "expiresAt"} :
                                  files'[i][f] = files[i][f]
                             /\ files'[i].isPublic = IF updates.isPublic = Undefined
                                                     THEN files[i].isPublic
                                                     ELSE updates.isPublic[1]
                             /\ files'[i].tags = IF updates.tags = Undefined
                                                 THEN files[i].tags ELSE updates.tags
                             /\ files'[i].expiresAt = IF updates.expiresAt = Undefined
                                                      THEN files[i].expiresAt
                                                      ELSE updates.expiresAt
             /\ (call[p].op = "updateFile" /\ pc[p] = "x_save" /\ pc'[p] = "done")
                => /\ files' = files
                   /\ ret'[p].kind = "ok"
                        => /\ ret'[p].value = MapGet(files, call[p].id)
                           /\ index'.exists
                           /\ loadMetadata(index') = files]_vars

\* updateFile has made the tagged record of a store of three private and
\* has returned it, its tags as they were.
UpdatedOneOfThree ==
    /\ pc[1] = "done"
    /\ call[1].op = "updateFile"
    /\ call[1].updates.isPublic = Some(FALSE)
    /\ call[1].updates.tags = Undefined
    /\ ret[1].kind = "ok"
    /\ ret[1].value # Undefined
    /\ ret[1].value[1].isPublic = FALSE
    /\ ret[1].value[1].tags = Some(<<STR_work>>)
    /\ Len(files) = 3
    /\ loadMetadata(index) = files

(* ---------------------------- deleteFile against a transform ----------- *)

\* A client asks for transforms of the stored files while another deletes
\* the files, on a working file system.
NextPurge ==
    \/ StorageInit
    \/ \E id \in IdSet, query \in CdnEnv.queries : CdnTransform(1, id, query, FALSE)
    \/ GetFileContentSaved(1, TRUE)
    \/ TransformExists(1)
    \/ TransformRead(1)
    \/ TransformDone(1, TRUE)
    \/ TransformWriting(1)
    \/ TransformWrite(1, TRUE)
    \/ \E id \in IdSet : DeleteFile(2, id)
    \/ DeleteUnlink(2, TRUE)
    \/ DeleteThumb(2, TRUE)
    \/ DeleteReaddir(2, TRUE)
    \/ \E name \in DOMAIN cache : DeletePurge(2, name, TRUE)
    \/ DeleteSaved(2, TRUE)

SpecPurge == InitServing /\ [][NextPurge]_vars

\* C32: once deleteFile(id) has returned true and no request is in flight
\* any more, the cache directory holds no file whose name starts with the
\* cache key prefix of id, also when a transform of id that had missed the
\* cache was being computed while deleteFile ran.
PurgeIsFinal ==
    \A q \in Procs :
        (/\ call[q].op = "deleteFile"
         /\ pc[q] = "done"
         /\ ret[q] = Ok(TRUE)
         /\ \A p \in Procs : Idle(p))
            => \A name \in DOMAIN cache : ~startsWith(name, call[q].id \o <<95>>)

(* ---------------------------- generateCacheKey ------------------------- *)

\* The first two lines of getCachedTransform(fileId, inputPath, options),
\* run by caller p: the cache key and the path of the cache file.
CacheKeyOf(p, fileId, options) ==
    /\ Idle(p)
    /\ call' = [call EXCEPT ![p] = [op |-> "generateCacheKey", fileId |-> fileId,
                                    options |-> options]]
    /\ Step(p, "done", EmptyLoc,
            Ok([cacheKey |-> generateCacheKey(fileId, options),
                cachePath |-> cachePath(fileId, options)]))
    /\ UNCHANGED <<files, initialized, index, disk, thumbs, cache, now, nextId, solo>>

\* The members a descriptor object can have: width 100, format webp and
\* blur 5, each set or present with the value undefined.
DescriptorEntries ==
    {[k |-> STR_width, v |-> Some(Num(100))], [k |-> STR_width, v |-> Undefined],
     [k |-> STR_format, v |-> Some(Str(STR_webp))], [k |-> STR_format, v |-> Undefined],
     [k |-> STR_blur, v |-> Some(Num(5))], [k |-> STR_blur, v |-> Undefined]}

\* Descriptor objects: up to three members with different names in any
\* order of insertion, at most one of them undefined.
Descriptors ==
    {o \in UNION {[1..n -> DescriptorEntries] :
                     n \in 0..Cardinality({e.k : e \in DescriptorEntries})} :
        /\ \A i, j \in 1..Len(o) : i # j => o[i].k # o[j].k
        /\ Cardinality({i \in 1..Len(o) : o[i].v = Undefined}) <= 1}

\* Two callers compute keys for one file, time and again.
NextKeyOrder ==
    \E p \in {1, 2}, options \in Descriptors : CacheKeyOf(p, generateFileId(1), options)

SpecKeyOrder == Init /\ [][NextKeyOrder]_vars

\* The set fields of a descriptor object with their values.
SetFields(options) ==
    {<<options[i].k, options[i].v[1]>> : i \in {j \in 1..Len(options) : options[j].v # Undefined}}

\* C34: for one fileId, generateCacheKey gives the same key for two
\* descriptor objects with the same set fields and the same values of them,
\* whatever the order in which the fields were inserted and whether a field
\* that is not set is missing or present with the value undefined.
CanonicalCacheKey ==
    \A p, q \in Procs :
        (/\ call[p].op = "generateCacheKey"
         /\ call[q].op = "generateCacheKey"
         /\ call[p].fileId = call[q].fileId
         /\ SetFields(call[p].options) = SetFields(call[q].options))
            => ret[p].value.cacheKey = ret[q].value.cacheKey

\* Two descriptors with the same two set fields, inserted in different
\* orders, one with a third field present and undefined, got the same key.
ReorderedSameKey ==
    /\ call[1].op = "generateCacheKey"
    /\ call[2].op = "generateCacheKey"
    /\ Len(call[1].options) = 3
    /\ Len(call[2].options) = 2
    /\ Cardinality(SetFields(call[1].options)) = 2
    /\ SetFields(call[1].options) = SetFields(call[2].options)
    /\ call[1].options[1].k = STR_width
    /\ call[2].options[2].k = STR_width
    /\ ret[1].value.cacheKey = ret[2].value.cacheKey

\* "inside_format=jpeg"
STR_inside_format_jpeg == STR_inside \o <<95>> \o STR_format \o <<61>> \o STR_jpeg

\* Query strings of GET /cdn/:id/transform: ?w=100 with f and fit absent
\* or sent, fit also as the string "inside_format=jpeg" (the route passes
\* f and fit on as they come).
KeyQueries ==
    {[NoQuery EXCEPT !.w = Some(<<49,48,48>>), !.f = f, !.fit = fit] :
        f \in {Undefined, Some(STR_jpeg), Some(STR_webp)},
        fit \in {Undefined, Some(STR_inside), Some(STR_inside_format_jpeg)}}

\* Two callers compute the cache paths of transform requests, time and again.
NextKeys ==
    \E p \in Procs, id \in IdSet, query \in KeyQueries :
        CacheKeyOf(p, id, TransformOptions(query))

SpecKeys == Init /\ [][NextKeys]_vars

\* C35: two transform requests that differ in the file id or in a set field
\* of the descriptor never get the same cache path.
InjectiveCachePath ==
    \A p, q \in Procs :
        (/\ call[p].op = "generateCacheKey"
         /\ call[q].op = "generateCacheKey"
         /\ \/ call[p].fileId # call[q].fileId
            \/ SetFields(call[p].options) # SetFields(call[q].options))
            => ret[p].value.cachePath # ret[q].value.cachePath

(* ---------------------------- the output format ------------------------ *)

STR_gif == <<103,105,102>>   \* "gif"

\* Query strings of GET /cdn/:id/transform: ?w=100 with f absent, empty,
\* one of the four formats of ImageTransformOptions, or gif.
FormatQueries ==
    {[NoQuery EXCEPT !.w = Some(<<49,48,48>>), !.f = f] :
        f \in {Undefined, Some(<< >>), Some(STR_jpeg), Some(STR_png), Some(STR_webp),
               Some(STR_avif), Some(STR_gif)}}

\* One client asks for transforms of the stored files in these formats.
NextFormats ==
    \/ StorageInit
    \/ \E id \in IdSet, query \in FormatQueries : CdnTransform(1, id, query, FALSE)
    \/ GetFileContentSaved(1, TRUE)
    \/ TransformExists(1)
    \/ TransformRead(1)
    \/ TransformDone(1, TRUE)
    \/ TransformWrite(1, TRUE)

SpecFormats == InitServing /\ [][NextFormats]_vars

\* C36: every file of the cache directory, and every image the transform
\* route serves, is encoded in the format that the extension of the cache
\* file and the Content-Type of the response name, and that format is one
\* of jpeg, png, webp and avif, whatever the f parameter of the request.
ArtifactInNamedFormat ==
    LET formats == {STR_jpeg, STR_png, STR_webp, STR_avif}
    IN  /\ \A name \in DOMAIN cache :
              \E format \in formats :
                  /\ Len(name) > Len(format)
                  /\ SubSeq(name, Len(name) - Len(format), Len(name)) = <<46>> \o format
                  /\ cache[name].encode = Some(format)
        /\ \A p \in Procs :
              (call[p].op = "cdnTransform" /\ pc[p] = "done" /\ Served(ret[p]))
                  => /\ ret[p].value.contentType \in formats
                     /\ ret[p].value.body.encode = Some(ret[p].value.contentType)

(* ---------------------------- refused CDN requests --------------------- *)

\* C37: a CDN request that is refused, as a request without API key for a
\* record that is not public (403) or as a transform of a record that is no
\* image (400), leaves the Map, and so the downloads counter of the record,
\* and the index file as they were, at its call and at its return.
RefusedLeavesCounter ==
    [][\A p \in Procs :
         LET metadata == MapGet(files, call'[p].id)
         IN  /\ (/\ CallStep(p, "cdnFile")
                 /\ IsSet(metadata)
                 /\ ~metadata[1].isPublic
                 /\ ~call'[p].isAuthenticated)
                    => files' = files /\ index' = index
             /\ (/\ CallStep(p, "cdnTransform")
                 /\ IsSet(metadata)
                 /\ ~startsWith(metadata[1].mimeType, STR_image_prefix))
                    => files' = files /\ index' = index
             /\ (/\ \E op \in CdnRoutes : ReturnStep(p, op)
                 /\ ret'[p].kind = "ok"
                 /\ ret'[p].value.status \in {400, 403})
                    => files' = files /\ index' = index]_vars

(* ---------------------------- clearCache ------------------------------- *)

\* What an earlier process left: two images, their files, the thumbnail of
\* the first, and in ./cache the artifact of ?w=100&f=webp of each.
PublicLogo ==
    [StoredFile(2, LogoFile, 200, 0, Undefined) EXCEPT !.width = Some(2), !.height = Some(2)]

ArtifactsLeft ==
    LET options == TransformOptions([NoQuery EXCEPT !.w = Some(<<49,48,48>>),
                                                    !.f = Some(STR_webp)])
    IN  (cachePath(PrivatePhoto.id, options) :> transform([bytes |-> PhotoFile.bytes], options))
           @@ (cachePath(PublicLogo.id, options) :> transform([bytes |-> LogoFile.bytes], options))

InitGallery ==
    /\ files = << >>
    /\ initialized = FALSE
    /\ index = Snapshot(<<PrivatePhoto, PublicLogo>>)
    /\ disk = (PrivatePhoto.path :> [bytes |-> PhotoFile.bytes])
                 @@ (PublicLogo.path :> [bytes |-> LogoFile.bytes])
    /\ thumbs = {PrivatePhoto.id}
    /\ cache = ArtifactsLeft
    /\ now = 1000
    /\ nextId = 1
    /\ pc = [p \in Procs |-> "idle"]
    /\ call = [p \in Procs |-> [op |-> "none"]]
    /\ loc = [p \in Procs |-> EmptyLoc]
    /\ ret = [p \in Procs |-> NoRet]
    /\ solo = [p \in Procs |-> FALSE]

\* A client asks for transforms of the two images while another deletes them.
SpecGallery == InitGallery /\ [][NextPurge]_vars

\* C38: the steps of clearCache(fileId), run by deleteFile, leave every
\* cache file of another id of the same length in place with its bytes.
ClearCacheKeepsOthers ==
    [][\A q \in Procs :
         (/\ call[q].op = "deleteFile"
          /\ pc[q] \in {"d_readdir", "d_purge"}
          /\ <<pc'[q], loc'[q]>> # <<pc[q], loc[q]>>)
            => \A name \in DOMAIN cache :
                   (/\ Len(call[q].id) = ID_LENGTH
                    /\ SubSeq(name, 1, ID_LENGTH) # call[q].id)
                      => name \in DOMAIN cache' /\ cache'[name] = cache[name]]_vars

\* deleteFile of the first image has returned true: its artifact is gone
\* from the cache and the artifact of the second image is there.
OtherArtifactKept ==
    /\ pc[2] = "done"
    /\ call[2] = [op |-> "deleteFile", id |-> PrivatePhoto.id]
    /\ ret[2] = Ok(TRUE)
    /\ \A name \in DOMAIN cache : SubSeq(name, 1, ID_LENGTH) = PublicLogo.id
    /\ \E name \in DOMAIN cache : cache[name] = ArtifactsLeft[name]

(* ---------------------------- checksum and resize ---------------------- *)

\* C39: the checksum and the size of a record are those of the bytes that
\* were uploaded, also when the resize of the upload has overwritten the
\* stored object; so the duplicate scan of a later upload of the same bytes
\* ends that upload with a record of that checksum and writes nothing.
ChecksumOfUploadedBytes ==
    [][\A p \in Procs :
          /\ \A outcome \in ImageOutcomes :
                UploadImage(p, outcome) =>
                    /\ loc'[p].meta[1].checksum = generateChecksum(call[p].file.bytes)
                    /\ loc'[p].meta[1].size = call[p].file.size
                    /\ MapGet(files', loc[p].id) = loc'[p].meta
          /\ (/\ ScanStep(p)
              /\ \E i \in 1..Len(files) :
                    files[i].checksum = generateChecksum(call[p].file.bytes))
                => /\ pc'[p] = "done"
                   /\ ret'[p].kind = "ok"
                   /\ ret'[p].value.checksum = generateChecksum(call[p].file.bytes)
                   /\ MapGet(files, ret'[p].value.id) = Some(ret'[p].value)
                   /\ <<files', disk', nextId', index'>> = <<files, disk, nextId, index>>
          /\ \A i \in 1..Len(files') :
                \E file \in DerivedEnv.files :
                    /\ files'[i].checksum = generateChecksum(file.bytes)
                    /\ files'[i].size = file.size
                    /\ files'[i].originalName = file.name]_vars

\* An upload of the photo without options has returned the record of an
\* earlier upload of it that was resized: the stored object is no longer
\* the uploaded bytes, and no second id was drawn.
DedupAfterResize ==
    /\ pc[1] = "done"
    /\ call[1] = [op |-> "upload", file |-> PhotoFile, options |-> NoOptions]
    /\ ret[1].kind = "ok"
    /\ ret[1].value.width = Some(2)
    /\ ret[1].value.checksum = generateChecksum(PhotoFile.bytes)
    /\ ret[1].value.size = PhotoFile.size
    /\ disk[ret[1].value.path] # [bytes |-> PhotoFile.bytes]
    /\ Len(files) = 1
    /\ nextId = 2

(* ---------------------------- uploadMultiple --------------------------- *)

\* The largest number of files in one request.
MaxFiles == 3

\* The lists of files a client sends in one request: one to MaxFiles of a
\* photo, a text file and a video over the ceiling, repeats included.
FileLists == UNION {[1..n -> InputFiles] : n \in 1..MaxFiles}

\* One client uploads lists of files, one request at a time, on a file
\* system whose writes can fail.
NextMultiple ==
    \/ StorageInit
    \/ \E fileList \in FileLists : UploadMultiple(1, fileList, NoOptions)
    \/ UploadScan(1)
    \/ \E ok \in BOOLEAN : UploadWrite(1, ok)
    \/ UploadImage(1, AllOk)
    \/ \E ok \in BOOLEAN : UploadSaved(1, ok)

SpecMultiple == Init /\ [][NextMultiple]_vars

\* Record r is in the Map fs and in the index file ix.
CommittedAndPersisted(r, fs, ix) ==
    /\ MapGet(fs, r.id) = Some(r)
    /\ MapGet(loadMetadata(ix), r.id) = Some(r)

\* C40: uploadMultiple uploads its files in input order, one at a time: a
\* step of the call writes and records for the file at the position the
\* loop has reached only; when that file is rejected or fails the call
\* throws and is over, and the records of the files before it are in the
\* Map and in the index file; when all succeed the result has one record
\* per input file, in input order, and the same record for inputs with the
\* same bytes.
UploadMultipleSequential ==
    [][\A p \in Procs :
         LET c == call'[p]
             entered == CallStep(p, "uploadMultiple")
             results == IF entered THEN << >> ELSE loc[p].results
             k == Len(results) + 1
         IN  (c.op = "uploadMultiple" /\ (entered \/ ~Idle(p)))
                => /\ disk' # disk
                        => \E path \in DOMAIN disk' \ DOMAIN disk :
                               disk' = Put(disk, path, [bytes |-> c.files[k].bytes])
                   /\ files' # files
                        => /\ Len(files') = Len(files) + 1
                           /\ SubSeq(files', 1, Len(files)) = files
                           /\ files'[Len(files')].checksum = generateChecksum(c.files[k].bytes)
                           /\ files'[Len(files')].originalName = c.files[k].name
                   /\ index' # index => index' = Snapshot(files)
                   /\ ret'[p].kind = "throw"
                        => /\ pc'[p] = "done"
                           /\ \A i \in 1..Len(results) :
                                  CommittedAndPersisted(results[i], files', index')
                   /\ ret'[p].kind = "ok"
                        => /\ pc'[p] = "done"
                           /\ Len(ret'[p].value) = Len(c.files)
                           /\ \A i \in 1..Len(c.files) :
                                  /\ ret'[p].value[i].checksum
                                        = generateChecksum(c.files[i].bytes)
                                  /\ MapGet(files', ret'[p].value[i].id)
                                        = Some(ret'[p].value[i])
                           /\ \A i, j \in 1..Len(c.files) :
                                  c.files[i].bytes = c.files[j].bytes
                                      => ret'[p].value[i] = ret'[p].value[j]]_vars

====
